---- MODULE Spec2Model ----
(***************************************************************************)
(* Streaming/control engine of the Unreal-Rokoko MetaHuman streamers.      *)
(*                                                                         *)
(* One run of Spec is one run of one of the programs, chosen by the        *)
(* variable `program`:                                                     *)
(*   "gui"  MetaHumanStreamerGUI (src/mh_streamer_gui.py): the worker      *)
(*          thread, the Tk main loop with its after() callbacks, and the   *)
(*          command queue between them;                                    *)
(*   "v2"   MetaHumanStreamerV2 (src/v2/mh_streamer_v2.py) and             *)
(*   "v3"   MetaHumanStreamerV3 (src/v3/mh_streamer_v3.py): the Tk main    *)
(*          loop and the stream_worker threads it starts;                  *)
(*   "nlp"  the command line of osc_streamer_v3 (NLPParser and OSCRouter,  *)
(*          known from src/tests/test_parser.py and test_router.py), which *)
(*          also puts each text to NLPCommandParser of V3.                 *)
(* Fields that the classes have in common (current_mode, osc_client,       *)
(* channels, the counters) are one variable; the fields of the program     *)
(* that is not running keep their initial values.                          *)
(*                                                                         *)
(* Values sent on the wire are floats in the program; here a value is a    *)
(* pair <<num, den>> standing for the rational num/den, so that the cubic  *)
(* envelope is exact.  The frame data of V2/V3 are integers.               *)
(***************************************************************************)
EXTENDS Integers, Sequences, FiniteSets, TLC

---------------------------------------------------------------------------
(* Bounds of the model (not program constants).                            *)

\* operator events (button presses / hotkeys) per run
MaxOps == 2
\* pending Tk after() callbacks the worker may run ahead of the main loop
MaxAfter == 2
\* largest value of the FPS entry
MaxFps == 2
\* largest duration entry, in half seconds
MaxDurHalves == 3
\* largest hold entry, in half seconds
MaxHoldHalves == 2
\* osc_send_count is tracked exactly up to this value and saturates there
MaxCount == 2
\* send failures the transport may produce between two counter resets
MaxErrors == 1
\* operator events per run of MetaHumanStreamerV2/V3
MaxStreamOps == 3
\* frames one stream_worker thread sends
MaxFrames == 2
\* frames of a movement sequence (60 in the recorded data)
SeqLen == 2
---------------------------------------------------------------------------
(* src/mh_streamer_gui.py: constants                                       *)

COMMANDS == {"START_HEARTBEAT", "TURN_RIGHT", "TURN_LEFT", "BASELINE",
             "STOP_ALL", "QUIT"}

MODES == {"Idle", "Heartbeat", "Turning Right", "Turning Left", "Baseline",
          "Stopped"}

RampModes == {"Turning Right", "Turning Left", "Baseline"}

TurnCommands == {"TURN_RIGHT", "TURN_LEFT", "BASELINE"}

\* mode that handle_command schedules for a command (QUIT schedules none)
ModeOf(command) ==
    CASE command = "START_HEARTBEAT" -> "Heartbeat"
      [] command = "TURN_RIGHT"      -> "Turning Right"
      [] command = "TURN_LEFT"       -> "Turning Left"
      [] command = "BASELINE"        -> "Baseline"
      [] command = "STOP_ALL"        -> "Stopped"
      [] OTHER                       -> "none"

\* direction argument that handle_command passes to start_ramp
DirectionOf(command) ==
    CASE command = "TURN_RIGHT" -> "right"
      [] command = "TURN_LEFT"  -> "left"
      [] OTHER                  -> "baseline"

\* channel lists a configuration file can produce (load_config)
ChannelConfigs ==
    { <<>>,
      << [address |-> "a1", amp_right |-> 2, amp_left |-> -2] >>,
      << [address |-> "a1", amp_right |-> 2, amp_left |-> -2],
         [address |-> "a2", amp_right |-> 1, amp_left |-> -3] >> }

Zero == <<0, 1>>

RatEq(x, y) == x[1] * y[2] = y[1] * x[2]

Min(a, b) == IF a < b THEN a ELSE b

---------------------------------------------------------------------------
VARIABLES
    program,            \* "gui", "v2", "v3" or "nlp"
    \* MetaHumanStreamerGUI fields
    command_queue,      \* queue.Queue of commands
    current_mode,
    osc_client,         \* FALSE: None, TRUE: a SimpleUDPClient
    running,
    channels,
    ramp_data,          \* <<>> (None) or one sequence of values per channel
    ramp_frame,
    hold_frames,
    hold_frame,
    connection_active,
    osc_send_count,
    osc_error_count,
    \* Tk entries read by the worker
    fps_var,
    fps_valid,          \* int(self.fps_var.get()) does not raise
    port_valid,         \* int(self.port_var.get()) does not raise
    duration_var,       \* in half seconds
    hold_var,           \* in half seconds
    \* threads
    after_queue,        \* callbacks scheduled with root.after(0, ...), FIFO
    worker_pc,          \* position of worker_loop
    backoff,            \* the last iteration ended in worker_loop's except
    gui_alive,          \* the Tk main loop has not been destroyed
    \* observation of the run
    ops,                \* operator events so far
    handled,            \* command handled in the current worker iteration
    frame,              \* send attempts of the last worker step
    frame_kind,         \* which code path produced `frame`
    mode_writer,        \* thread that last wrote current_mode
    since_turn,         \* a turn was handled and the operator has been quiet
    \* MetaHumanStreamerV2 / MetaHumanStreamerV3 fields
    is_streaming,
    stop_event,         \* threading.Event: TRUE when set
    channel_mapping,    \* source column -> feature index (from 0)
    normalization_params,
    baseline_sequence,
    left_turn_sequence, \* <<>> (None) or a sequence of frames
    right_turn_sequence,
    data_mode,          \* V3: "REAL" or "MOCK"
    threads,            \* the stream_worker threads started so far
    gui_pc,             \* position of the Tk main loop inside a handler
    last_frame_sent,    \* last value sent on /mh/frame since start_streaming
    osc_host,
    osc_port,
    client_address,     \* <<host, port>> that osc_client sends to, <<>> if None
    \* the text command line: NLPParser, OSCRouter (osc_streamer_v3) and
    \* NLPCommandParser (V3)
    text,               \* the text read last
    intent,             \* NLPParser.parse(text)
    parsed,             \* NLPCommandParser.parse_command(text)
    dry_run,            \* the router's dry-run flag
    address_map,        \* the router's scope -> address table
    route_result,       \* what OSCRouter.route returned last
    transport,          \* send_message calls of the last route
    nlp_pc              \* "read", "route", "show", or "off"

gui_vars == <<program, command_queue, current_mode, osc_client, running, channels,
              ramp_data, ramp_frame, hold_frames, hold_frame,
              connection_active, osc_send_count, osc_error_count,
              fps_var, duration_var, hold_var, after_queue, worker_pc,
              gui_alive, ops, handled, frame, frame_kind, mode_writer,
              since_turn, fps_valid, port_valid, backoff>>

stream_only_vars == <<is_streaming, stop_event, channel_mapping,
                      normalization_params, baseline_sequence,
                      left_turn_sequence, right_turn_sequence, data_mode,
                      threads, gui_pc, last_frame_sent, osc_host, osc_port,
                      client_address>>

gui_only_vars == <<command_queue, running, ramp_data, ramp_frame, hold_frames,
                   hold_frame, connection_active, fps_var, duration_var,
                   hold_var, after_queue, worker_pc, gui_alive, handled,
                   since_turn, backoff>>

nlp_vars == <<text, intent, parsed, dry_run, address_map, route_result,
              transport, nlp_pc>>

vars == <<gui_vars, stream_only_vars, nlp_vars>>

---------------------------------------------------------------------------
(* build_envelope: t = linspace(0, 1, n); 3t^2 - 2t^3.                     *)
(* linspace(0,1,0) is empty, linspace(0,1,1) is [0.0], otherwise           *)
(* t_i = i/(n-1) for i = 0..n-1.                                           *)

EnvDen(n) == IF n > 1 THEN (n - 1) * (n - 1) * (n - 1) ELSE 1

EnvNum(n, i) == IF n > 1 THEN 3 * i * i * (n - 1) - 2 * i * i * i ELSE 0

\* an envelope t^2 in place of 3t^2 - 2t^3
build_envelope_quadratic(n_frames) ==
    [j \in 1..n_frames |->
        <<(j - 1) * (j - 1) * (n_frames - 1), EnvDen(n_frames)>>]

build_envelope(n_frames) ==
    [j \in 1..n_frames |-> <<EnvNum(n_frames, j - 1), EnvDen(n_frames)>>]

\* amplitude * envelope
Scale(amplitude, envelope) ==
    [j \in 1..Len(envelope) |-> <<amplitude * envelope[j][1], envelope[j][2]>>]

---------------------------------------------------------------------------
(* The object's fields that the worker's methods assign, as one record.    *)

Self ==
    [osc_client        |-> osc_client,
     running           |-> running,
     ramp_data         |-> ramp_data,
     ramp_frame        |-> ramp_frame,
     hold_frames       |-> hold_frames,
     hold_frame        |-> hold_frame,
     connection_active |-> connection_active,
     osc_send_count    |-> osc_send_count,
     osc_error_count   |-> osc_error_count,
     after_queue       |-> after_queue,
     sends             |-> <<>>,
     kind              |-> "none"]

\* root.after(0, callback) called on the worker thread; after the window is
\* destroyed nothing runs callbacks any more
After(s, callback) ==
    IF gui_alive
    THEN [s EXCEPT !.after_queue = Append(@, callback)]
    ELSE s

StatusCallback(mode) == [kind |-> "update_status", mode |-> mode]

PutCallback == [kind |-> "put", mode |-> "none"]

\* one osc_client.send_message per entry of values, in order; the sends
\* whose index is in fails raise
Attempts(values, fails) ==
    [i \in 1..Len(values) |->
        [address |-> channels[i].address, value |-> values[i],
         ok |-> i \notin fails]]

Successes(attempts) == Cardinality({i \in DOMAIN attempts : attempts[i].ok})

Failures(attempts) == Cardinality({i \in DOMAIN attempts : ~attempts[i].ok})

\* osc_send_count += success_count (tracked up to MaxCount)
AddSent(count, success_count) == Min(count + success_count, MaxCount)

\* failure patterns the transport may produce for a frame of n sends
FailSets(n) ==
    {f \in SUBSET (1..n) : osc_error_count + Cardinality(f) <= MaxErrors}

---------------------------------------------------------------------------
(* Worker-side methods                                                     *)

\* int(self.port_var.get()) raising leaves the client and the counters as
\* they were
start_osc_client(s) ==
    IF port_valid
    THEN [s EXCEPT !.osc_client = TRUE,
                   !.connection_active = TRUE,
                   !.osc_send_count = 0,
                   !.osc_error_count = 0]
    ELSE [s EXCEPT !.connection_active = FALSE]

send_heartbeat(s, fails) ==
    IF ~s.osc_client \/ channels = <<>>
    THEN s
    ELSE LET attempts == Attempts([i \in DOMAIN channels |-> Zero], fails)
             success_count == Successes(attempts)
         IN [s EXCEPT !.sends = attempts,
                      !.kind = "heartbeat",
                      !.osc_error_count = @ + Failures(attempts),
                      !.osc_send_count =
                          IF success_count > 0 THEN AddSent(@, success_count)
                          ELSE @]

Amplitude(channel, direction) ==
    CASE direction = "right" -> channel.amp_right
      [] direction = "left"  -> channel.amp_left
      [] OTHER               -> 0

start_ramp(s, direction) ==
    IF ~s.osc_client \/ channels = <<>>
    THEN s
    ELSE IF ~fps_valid
    THEN s
    ELSE LET ramp_frames == (duration_var * fps_var) \div 2
             hold == (hold_var * fps_var) \div 2
         IN [s EXCEPT
                !.ramp_data =
                    [i \in DOMAIN channels |->
                        Scale(Amplitude(channels[i], direction),
                              build_envelope(ramp_frames))],
                !.ramp_frame = 0,
                !.hold_frames = hold,
                !.hold_frame = 0]

\* `not self.ramp_data`: None and the empty list are both written <<>>
NoRampData(s) == s.ramp_data = <<>>

\* channels reached by `for i, channel in enumerate(self.channels)` before
\* self.ramp_data[i] raises IndexError
Reached(s) == Min(Len(channels), Len(s.ramp_data))

send_ramp_frame(s, fails) ==
    IF ~s.osc_client \/ NoRampData(s)
    THEN s
    ELSE IF s.ramp_frame >= Len(s.ramp_data[1])
    THEN IF s.hold_frame < s.hold_frames
         THEN IF Len(s.ramp_data[1]) = 0
              THEN \* self.ramp_data[0][-1] raises IndexError: caught and logged
                   [s EXCEPT !.kind = "error"]
              ELSE LET final ==
                          [i \in 1..Reached(s) |->
                              s.ramp_data[i][Len(s.ramp_data[i])]]
                       attempts == Attempts(final, fails)
                   IN [s EXCEPT
                          !.sends = attempts,
                          !.kind = "hold",
                          !.osc_error_count = @ + Failures(attempts),
                          !.hold_frame =
                              IF Len(channels) > Len(s.ramp_data) THEN @
                              ELSE @ + 1]
         ELSE [After(s, PutCallback) EXCEPT !.kind = "complete"]
    ELSE LET values ==
                [i \in 1..Reached(s) |-> s.ramp_data[i][s.ramp_frame + 1]]
             attempts == Attempts(values, fails)
             success_count == Successes(attempts)
             raised == Len(channels) > Len(s.ramp_data)
         IN [s EXCEPT
                !.sends = attempts,
                !.kind = "ramp",
                !.osc_error_count = @ + Failures(attempts),
                !.osc_send_count =
                    IF ~raised /\ success_count > 0
                    THEN AddSent(@, success_count) ELSE @,
                !.ramp_frame = IF raised THEN @ ELSE @ + 1]

stop_all(s, fails) ==
    LET t == [s EXCEPT !.ramp_data = <<>>,
                       !.ramp_frame = 0,
                       !.hold_frame = 0,
                       !.connection_active = FALSE]
    IN IF t.osc_client /\ channels # <<>>
       THEN LET attempts == Attempts([i \in DOMAIN channels |-> Zero], fails)
                success_count == Successes(attempts)
            IN [t EXCEPT !.sends = attempts,
                         !.kind = "stop",
                         !.osc_error_count = @ + Failures(attempts),
                         !.osc_send_count =
                             IF success_count > 0
                             THEN AddSent(@, success_count) ELSE @]
       ELSE t

handle_command(s, command, fails) ==
    CASE command = "START_HEARTBEAT" ->
            After(start_osc_client(s), StatusCallback("Heartbeat"))
      [] command \in TurnCommands ->
            After(start_ramp(s, DirectionOf(command)),
                  StatusCallback(ModeOf(command)))
      [] command = "STOP_ALL" ->
            After(stop_all(s, fails), StatusCallback("Stopped"))
      [] command = "QUIT" ->
            [s EXCEPT !.running = FALSE]
      [] OTHER -> s

---------------------------------------------------------------------------
(* Spec: MetaHumanStreamerGUI                                              *)

\* what the FPS and port entries hold when the program starts: integers, or
\* one of them a text that int() rejects
EntryCases == {<<TRUE, TRUE>>, <<FALSE, TRUE>>, <<TRUE, FALSE>>}

GuiInit ==
    /\ program = "gui"
    /\ command_queue = <<>>
    /\ current_mode = "Idle"
    /\ osc_client = FALSE
    /\ running = TRUE
    /\ channels \in ChannelConfigs
    /\ ramp_data = <<>>
    /\ ramp_frame = 0
    /\ hold_frames = 0
    /\ hold_frame = 0
    /\ connection_active = FALSE
    /\ osc_send_count = 0
    /\ osc_error_count = 0
    /\ \E e \in EntryCases : fps_valid = e[1] /\ port_valid = e[2]
    \* the entries' values are read only by start_ramp, which needs the
    \* client and a valid FPS entry
    /\ fps_var \in (IF fps_valid /\ port_valid THEN 1..MaxFps ELSE {1})
    /\ backoff = FALSE
    \* the durations and holds between give ramp and hold lengths that these
    \* give at another FPS
    /\ duration_var \in (IF fps_valid /\ port_valid THEN {0, MaxDurHalves}
                       ELSE {0})
    /\ hold_var \in (IF fps_valid /\ port_valid THEN {0, MaxHoldHalves} ELSE {0})
    /\ after_queue = <<>>
    /\ worker_pc = "cmd"
    /\ gui_alive = TRUE
    /\ ops = 0
    /\ handled = "none"
    /\ frame = <<>>
    /\ frame_kind = "none"
    /\ mode_writer = "init"
    /\ since_turn = FALSE

\* the fields of s written back to the object
Commit(s) ==
    /\ osc_client' = s.osc_client
    /\ running' = s.running
    /\ ramp_data' = s.ramp_data
    /\ ramp_frame' = s.ramp_frame
    /\ hold_frames' = s.hold_frames
    /\ hold_frame' = s.hold_frame
    /\ connection_active' = s.connection_active
    /\ osc_send_count' = s.osc_send_count
    /\ osc_error_count' = s.osc_error_count
    /\ after_queue' = s.after_queue
    /\ frame' = s.sends
    /\ frame_kind' = s.kind

\* what no step of MetaHumanStreamerGUI changes: the Tk variables and the
\* fields of the other programs
Entries == <<program, fps_var, fps_valid, port_valid, duration_var, hold_var,
             stream_only_vars, nlp_vars>>

\* what only browse_config changes: the loaded configuration, with Entries
Settings == <<channels, Entries>>

\* a queue that hands out its newest entry
get_nowait_newest(queue) ==
    [command |-> queue[Len(queue)], rest |-> SubSeq(queue, 1, Len(queue) - 1)]

\* queue.Queue.get_nowait on a non-empty queue: the oldest entry
get_nowait(queue) == [command |-> Head(queue), rest |-> Tail(queue)]

\* the operator has issued nothing that is still to be handled after a turn
QuietAfter(queue) == \A i \in DOMAIN queue : queue[i] = "START_HEARTBEAT"

\* worker_loop, `while self.running` and the command part of an iteration:
\* get_nowait and handle_command
WorkerCommand ==
    /\ worker_pc = "cmd"
    /\ Len(after_queue) < MaxAfter
    /\ UNCHANGED <<Settings, current_mode, gui_alive, ops, mode_writer,
                   backoff>>
    /\ IF ~running
       THEN /\ worker_pc' = "done"
            /\ UNCHANGED <<command_queue, osc_client, running, ramp_data,
                           ramp_frame, hold_frames, hold_frame,
                           connection_active, osc_send_count,
                           osc_error_count, after_queue, handled, frame,
                           frame_kind, since_turn>>
       ELSE /\ worker_pc' = "mode1"
            /\ IF command_queue = <<>>
               THEN /\ Commit(Self)
                    /\ handled' = "none"
                    /\ UNCHANGED <<command_queue, since_turn>>
               ELSE LET got == get_nowait(command_queue)
                        command == got.command
                        n == IF command = "STOP_ALL" THEN Len(channels) ELSE 0
                    IN /\ \E fails \in FailSets(n) :
                            Commit(handle_command(Self, command, fails))
                       /\ command_queue' = got.rest
                       /\ handled' = command
                       /\ since_turn' =
                            CASE command \in TurnCommands ->
                                    QuietAfter(got.rest)
                              [] command = "START_HEARTBEAT" -> since_turn
                              [] OTHER -> FALSE

\* an iteration's end at which the ValueError leaves the loop
EndOfIterationRaising ==
    /\ worker_pc' = (IF fps_valid THEN "cmd" ELSE "done")
    /\ backoff' = ~fps_valid

\* worker_loop, `fps = int(self.fps_var.get())` and the sleep: a text that
\* is not an integer raises ValueError, caught by the loop's except, which
\* logs, sleeps 0.1 s and goes to the next iteration
EndOfIteration ==
    /\ worker_pc' = "cmd"
    /\ backoff' = ~fps_valid

\* worker_loop, `if self.current_mode == MODES['HEARTBEAT']`
WorkerHeartbeat ==
    /\ worker_pc = "mode1"
    /\ Len(after_queue) < MaxAfter
    /\ UNCHANGED <<Settings, command_queue, current_mode, gui_alive, ops,
                   handled, mode_writer, since_turn>>
    /\ IF current_mode = "Heartbeat"
       THEN /\ \E fails \in FailSets(Len(channels)) :
                    Commit(send_heartbeat(Self, fails))
            /\ EndOfIteration
       ELSE /\ Commit(Self)
            /\ worker_pc' = "mode2"
            /\ UNCHANGED backoff

\* worker_loop, `elif self.current_mode in [...]`, then the sleep
WorkerRamp ==
    /\ worker_pc = "mode2"
    /\ Len(after_queue) < MaxAfter
    /\ UNCHANGED <<Settings, command_queue, current_mode, gui_alive, ops,
                   handled, mode_writer, since_turn>>
    /\ EndOfIteration
    /\ IF current_mode \in RampModes
       THEN \E fails \in FailSets(Len(channels)) :
                Commit(send_ramp_frame(Self, fails))
       ELSE Commit(Self)

WorkerVars == <<osc_client, running, ramp_data, ramp_frame, hold_frames,
                hold_frame, connection_active, osc_send_count,
                osc_error_count, worker_pc, handled, frame, frame_kind,
                backoff>>

\* the Tk main loop runs the oldest after() callback: update_status
UpdateStatus ==
    /\ gui_alive
    /\ after_queue # <<>>
    /\ Head(after_queue).kind = "update_status"
    /\ current_mode' = Head(after_queue).mode
    /\ mode_writer' = "gui"
    /\ after_queue' = Tail(after_queue)
    /\ UNCHANGED <<Settings, WorkerVars, command_queue, gui_alive, ops,
                   since_turn>>

\* the Tk main loop runs the oldest after() callback:
\* command_queue.put(START_HEARTBEAT) scheduled by send_ramp_frame
PutHeartbeat ==
    /\ gui_alive
    /\ after_queue # <<>>
    /\ Head(after_queue).kind = "put"
    /\ command_queue' = Append(command_queue, "START_HEARTBEAT")
    /\ after_queue' = Tail(after_queue)
    /\ UNCHANGED <<Settings, WorkerVars, current_mode, gui_alive, ops,
                   mode_writer, since_turn>>

\* a GUI event handler (button or Ctrl hotkey) that puts `command`
Put(command) ==
    /\ gui_alive
    /\ ops < MaxOps
    /\ ops' = ops + 1
    /\ command_queue' = Append(command_queue, command)
    /\ since_turn' = FALSE
    /\ UNCHANGED <<Settings, WorkerVars, current_mode, gui_alive,
                   after_queue, mode_writer>>

start_streaming == channels # <<>> /\ Put("START_HEARTBEAT")

turn_right == channels # <<>> /\ Put("TURN_RIGHT")

turn_left == channels # <<>> /\ Put("TURN_LEFT")

return_to_baseline == channels # <<>> /\ Put("BASELINE")

stop_streaming == Put("STOP_ALL")

on_closing ==
    /\ gui_alive
    /\ ops < MaxOps
    /\ ops' = ops + 1
    /\ command_queue' = Append(command_queue, "QUIT")
    /\ running' = FALSE
    /\ gui_alive' = FALSE
    /\ since_turn' = FALSE
    /\ UNCHANGED <<Settings, current_mode, osc_client, ramp_data, ramp_frame,
                   hold_frames, hold_frame, connection_active,
                   osc_send_count, osc_error_count, after_queue, worker_pc,
                   handled, frame, frame_kind, mode_writer, backoff>>

\* configuration files the operator can choose: a path with no file, a JSON
\* object without 'channels', and channel lists whose last entry may lack a
\* required key
ConfigFiles ==
    LET a1 == [address |-> "a1", amp_right |-> 2, amp_left |-> -2]
        a2 == [address |-> "a2", amp_right |-> 1, amp_left |-> -3]
        malformed == [address |-> "a3", amp_right |-> 1]
    IN { [exists |-> FALSE],
         [exists |-> TRUE, config |-> [version |-> 1]] }
       \cup { [exists |-> TRUE, config |-> [channels |-> list]] :
                 list \in { <<>>, <<a1>>, <<a1, a2>>,
                            <<malformed>>, <<a1, malformed>> } }

\* load_config: its return value and self.channels after it. self.channels
\* is emptied once the 'channels' key is found and filled entry by entry; an
\* entry without a required key raises and ends the loop
load_config(file) ==
    IF ~file.exists \/ "channels" \notin DOMAIN file.config
    THEN [ok |-> FALSE, channels |-> channels]
    ELSE LET list == file.config.channels
             required_keys == {"address", "amp_right", "amp_left"}
             raising == {i \in DOMAIN list :
                            ~(required_keys \subseteq DOMAIN list[i])}
             first == CHOOSE i \in raising : \A j \in raising : i <= j
         IN IF raising = {}
            THEN [ok |-> TRUE, channels |-> list]
            ELSE [ok |-> FALSE, channels |-> SubSeq(list, 1, first - 1)]

\* browse_config with a file chosen, and its load_config: the Browse button
\* is enabled in every mode. A file that cannot be loaded leaves the list or
\* ends it after the channels read so far, which are lists of ChannelConfigs;
\* a load that leaves the list as it was is not a step
browse_config ==
    /\ gui_alive
    /\ ops < MaxOps
    /\ ops' = ops + 1
    /\ \E file \in ConfigFiles :
          /\ channels' = load_config(file).channels
          /\ channels' # channels
    /\ since_turn' = FALSE
    /\ UNCHANGED <<Entries, WorkerVars, command_queue, current_mode,
                   gui_alive, after_queue, mode_writer>>

GuiNext ==
    \/ WorkerCommand
    \/ WorkerHeartbeat
    \/ WorkerRamp
    \/ UpdateStatus
    \/ PutHeartbeat
    \/ start_streaming
    \/ turn_right
    \/ turn_left
    \/ return_to_baseline
    \/ stop_streaming
    \/ on_closing
    \/ browse_config

---------------------------------------------------------------------------
(* MetaHumanStreamerV2 / MetaHumanStreamerV3                               *)

\* first sample of baseline_data.npy / left_turn_data.npy /
\* right_turn_data.npy: SeqLen frames of two features each
BaselineData == [k \in 1..SeqLen |-> <<k, 0>>]

LeftData == [k \in 1..SeqLen |-> <<-10 * k, -2>>]

RightData == [k \in 1..SeqLen |-> <<10 * k, 2>>]

\* data/processed/columns.txt: a column list longer than a frame
feature_names == <<"colA", "colB", "colD">>

ChA == [source_column |-> "colA", osc_address |-> "/bone/a",
        transform |-> [scale |-> 2, offset |-> 1, clamp |-> <<>>]]

ChB == [source_column |-> "colB", osc_address |-> "/bone/b",
        transform |-> [scale |-> 1, offset |-> 0, clamp |-> <<-1, 1>>]]

\* a source column that is not among the feature names
ChC == [source_column |-> "colC", osc_address |-> "/bone/c",
        transform |-> [scale |-> 1, offset |-> 0, clamp |-> <<>>]]

\* a source column whose feature index is beyond the frame
ChD == [source_column |-> "colD", osc_address |-> "/bone/d",
        transform |-> [scale |-> 1, offset |-> 0, clamp |-> <<>>]]

\* channel lists of osc_channels_config.json
StreamConfigs == { <<>>, <<ChA, ChB>>, <<ChA, ChC, ChB>>, <<ChA, ChD, ChB>> }

\* normalization_params.json: loaded before the baseline sequence, so never
\* None once streaming can start
NormalizationParams == [none |-> FALSE, mean |-> <<1, 0>>, std |-> <<2, 1>>]

\* list.index: position (from 0) of the first occurrence
IndexOf(names, name) ==
    CHOOSE i \in 0..(Len(names) - 1) :
        /\ names[i + 1] = name
        /\ \A j \in 0..(i - 1) : names[j + 1] # name

\* load_channel_config: the mapping from source columns to feature indices
ChannelMapping(chs) ==
    LET found == {chs[i].source_column : i \in DOMAIN chs} \cap
                 {feature_names[i] : i \in DOMAIN feature_names}
    IN [c \in found |-> IndexOf(feature_names, c)]

\* OSC_HOST and OSC_PORT of the module
OSC_HOST == "127.0.0.1"

OSC_PORT == IF program = "v3" THEN 9000 ELSE 7000

StreamInit ==
    /\ program \in {"v2", "v3"}
    /\ channels \in StreamConfigs
    /\ channel_mapping = ChannelMapping(channels)
    /\ normalization_params = NormalizationParams
    /\ baseline_sequence = BaselineData
    /\ left_turn_sequence = <<>>
    /\ right_turn_sequence = <<>>
    /\ \E e \in EntryCases : fps_valid = e[1] /\ port_valid = e[2]
    /\ osc_client = port_valid
    /\ osc_host = OSC_HOST
    /\ osc_port = OSC_PORT
    /\ client_address = IF osc_client THEN <<OSC_HOST, OSC_PORT>> ELSE <<>>
    /\ is_streaming = FALSE
    /\ stop_event = FALSE
    /\ current_mode = "BASELINE"
    /\ data_mode = "REAL"
    /\ threads = <<>>
    /\ gui_pc = "idle"
    /\ osc_send_count = 0
    /\ osc_error_count = 0
    /\ last_frame_sent = -1
    /\ ops = 0
    /\ frame = <<>>
    /\ frame_kind = "none"
    /\ mode_writer = "init"

Max(a, b) == IF a > b THEN a ELSE b

\* denormalize_data: x_norm * std + mean, element by element
denormalize_data(normalized_data) ==
    IF normalization_params.none
    THEN normalized_data
    ELSE [i \in DOMAIN normalized_data |->
            normalized_data[i] * normalization_params.std[i]
                + normalization_params.mean[i]]

\* a transform that ignores its clamp
TransformUnclamped(transform, raw_value) ==
    transform.scale * raw_value + transform.offset

\* scale * value + offset, then the clamp if there is one
Transform(transform, raw_value) ==
    LET transformed_value == transform.scale * raw_value + transform.offset
    IN IF transform.clamp # <<>>
       THEN Max(transform.clamp[1], Min(transform.clamp[2], transformed_value))
       ELSE transformed_value

\* a channel loop that sends nothing for a column without a feature index
ChannelSendSkipping(i, data, fails) ==
    LET channel == channels[i]
        source_column == channel.source_column
    IN IF source_column \in DOMAIN channel_mapping
          /\ channel_mapping[source_column] < Len(data)
       THEN << [address |-> channel.osc_address,
                value |-> Transform(channel.transform,
                                    data[channel_mapping[source_column] + 1]),
                ok |-> i \notin fails] >>
       ELSE <<>>

\* the body of `for channel in self.channels` for channel number i: the
\* sends it attempts (none for a mapped column whose index is beyond the
\* data)
ChannelSend(i, data, fails) ==
    LET channel == channels[i]
        source_column == channel.source_column
    IN IF source_column \in DOMAIN channel_mapping
       THEN LET feature_idx == channel_mapping[source_column]
            IN IF feature_idx < Len(data)
               THEN << [address |-> channel.osc_address,
                        value |-> Transform(channel.transform,
                                            data[feature_idx + 1]),
                        ok |-> i \notin fails] >>
               ELSE <<>>
       ELSE << [address |-> channel.osc_address, value |-> 0,
                ok |-> i \notin fails] >>

\* a channel loop that a failed send ends
RECURSIVE ChannelSendsAborting(_, _, _)
ChannelSendsAborting(n, data, fails) ==
    IF n = 0 THEN <<>>
    ELSE IF \E i \in 1..(n - 1) : i \in fails
         THEN ChannelSendsAborting(n - 1, data, fails)
         ELSE ChannelSendsAborting(n - 1, data, fails)
                  \o ChannelSend(n, data, fails)

RECURSIVE ChannelSends(_, _, _)
ChannelSends(n, data, fails) ==
    IF n = 0 THEN <<>>
    ELSE ChannelSends(n - 1, data, fails) \o ChannelSend(n, data, fails)

\* the two control messages, sent in one try block: a failure of the first
\* skips the second
ControlSends(frame_count, mode, control) ==
    CASE control = "ok" ->
            << [address |-> "/mh/frame", value |-> frame_count, ok |-> TRUE],
               [address |-> "/mh/mode", value |-> mode, ok |-> TRUE] >>
      [] control = "frame_fails" ->
            << [address |-> "/mh/frame", value |-> frame_count, ok |-> FALSE] >>
      [] OTHER ->
            << [address |-> "/mh/frame", value |-> frame_count, ok |-> TRUE],
               [address |-> "/mh/mode", value |-> mode, ok |-> FALSE] >>

ControlOutcomes == {"ok", "frame_fails", "mode_fails"}

\* stream_frame: the sends attempted and the counters' increments
stream_frame(frame_data, frame_count, mode, fails, control) ==
    IF ~osc_client \/ channels = <<>>
    THEN [sends |-> <<>>, control |-> <<>>, errors |-> 0, successes |-> 0,
          kind |-> "none"]
    ELSE LET data == denormalize_data(frame_data)
             sent == ChannelSends(Len(channels), data, fails)
             ctl == ControlSends(frame_count, mode, control)
         IN [sends |-> sent,
             control |-> ctl,
             errors |-> Failures(sent) + (IF control = "ok" THEN 0 ELSE 1),
             successes |-> Successes(sent) + (IF control = "ok" THEN 2 ELSE 0),
             kind |-> "stream"]

\* stream_mock_frame (V3): one signal chosen by the mode, then the control
\* messages (the signal's value, a sine of frame_count, is kept as
\* frame_count)
stream_mock_frame(frame_count, mode, fails, control) ==
    IF ~osc_client
    THEN [sends |-> <<>>, control |-> <<>>, errors |-> 0, successes |-> 0,
          kind |-> "none"]
    ELSE LET address == IF mode = "TURNING_RIGHT"
                        THEN "/mh/RightForeArm_roll"
                        ELSE "/mh/LeftForeArm_roll"
             sent == << [address |-> address, value |-> frame_count,
                         ok |-> 1 \notin fails] >>
             ctl == ControlSends(frame_count, mode \o "_MOCK", control)
         IN [sends |-> sent,
             control |-> ctl,
             errors |-> Failures(sent) + (IF control = "ok" THEN 0 ELSE 1),
             successes |-> Successes(sent) + (IF control = "ok" THEN 2 ELSE 0),
             kind |-> "mock"]

\* failure patterns of one frame within the failure budget
FramePatterns(n) ==
    {p \in (SUBSET (1..n)) \X ControlOutcomes :
        osc_error_count + Cardinality(p[1])
            + (IF p[2] = "ok" THEN 0 ELSE 1) <= MaxErrors}

\* what no step of MetaHumanStreamerV2/V3 changes: the loaded data and
\* configuration, the OSC client, and the fields of the other program
StreamSettings == <<program, channels, channel_mapping, normalization_params,
                    baseline_sequence, osc_client, fps_valid, port_valid,
                    osc_host, osc_port, client_address, gui_only_vars,
                    nlp_vars>>

RECURSIVE SumFrameCounts(_)
SumFrameCounts(n) ==
    IF n = 0 THEN 0 ELSE SumFrameCounts(n - 1) + threads[n].frame_count

\* the frames the workers have streamed in all (at most MaxFrames are
\* followed)
FramesStreamed == SumFrameCounts(Len(threads))

\* stream_worker, the choice of the sequence by data_mode and current_mode
SelectSequence ==
    IF program = "v3" /\ data_mode = "MOCK" THEN "mock"
    ELSE IF current_mode = "TURNING_LEFT" /\ left_turn_sequence # <<>>
         THEN "left"
    ELSE IF current_mode = "TURNING_RIGHT" /\ right_turn_sequence # <<>>
         THEN "right"
    ELSE "baseline"

\* a loop whose test never sees the stop flag
StreamWhileIgnoringStop(t) ==
    /\ threads[t].pc = "while"
    /\ FramesStreamed < MaxFrames
    /\ threads' = [threads EXCEPT ![t].pc = "send",
                                  ![t].checked = TRUE,
                                  ![t].sequence = SelectSequence]
    /\ UNCHANGED <<StreamSettings, is_streaming, stop_event, current_mode,
                   left_turn_sequence, right_turn_sequence, data_mode, gui_pc,
                   osc_send_count, osc_error_count, last_frame_sent, ops,
                   frame, frame_kind, mode_writer>>

\* stream_worker, `while not self.stop_event.is_set()` and, in the loop, the
\* choice of the sequence (the test reads stop_event only, the choice never
\* reads it)
StreamWhile(t) ==
    /\ threads[t].pc = "while"
    /\ IF stop_event
       THEN threads' = [threads EXCEPT ![t].pc = "done",
                                          ![t].checked = FALSE]
       ELSE /\ FramesStreamed < MaxFrames
            /\ threads' = [threads EXCEPT ![t].pc = "send",
                                          ![t].checked = TRUE,
                                          ![t].sequence = SelectSequence]
    /\ UNCHANGED <<StreamSettings, is_streaming, stop_event, current_mode,
                   left_turn_sequence, right_turn_sequence, data_mode, gui_pc,
                   osc_send_count, osc_error_count, last_frame_sent, ops,
                   frame, frame_kind, mode_writer>>

SequenceOf(name) ==
    CASE name = "left"  -> left_turn_sequence
      [] name = "right" -> right_turn_sequence
      [] OTHER          -> baseline_sequence

\* stream_worker, stream_frame / stream_mock_frame of the chosen frame,
\* `frame_count += 1` and the sleep
StreamSend(t) ==
    /\ threads[t].pc = "send"
    /\ LET frame_count == threads[t].frame_count
           sequence == SequenceOf(threads[t].sequence)
           frame_idx == frame_count % Len(sequence)
           n == IF threads[t].sequence = "mock" THEN 1 ELSE Len(channels)
       IN \E p \in FramePatterns(n) :
            \E r \in { IF threads[t].sequence = "mock"
                       THEN stream_mock_frame(frame_count, current_mode,
                                              p[1], p[2])
                       ELSE stream_frame(sequence[frame_idx + 1], frame_count,
                                         current_mode, p[1], p[2]) } :
               /\ frame' = r.sends \o r.control
               /\ frame_kind' = r.kind
               /\ osc_error_count' = osc_error_count + r.errors
               /\ osc_send_count' = AddSent(osc_send_count, r.successes)
               /\ last_frame_sent' =
                    IF r.control # <<>> /\ r.control[1].ok
                    THEN frame_count ELSE last_frame_sent
    /\ threads' = [threads EXCEPT ![t].pc = "while",
                                  ![t].sequence = "baseline",
                                  ![t].frame_count = @ + 1]
    /\ UNCHANGED <<StreamSettings, is_streaming, stop_event, current_mode,
                   left_turn_sequence, right_turn_sequence, data_mode, gui_pc,
                   ops, mode_writer>>

StreamWorkerVars == <<threads, osc_send_count, osc_error_count,
                      last_frame_sent, frame, frame_kind>>

\* a Tk event handler starts: the main loop is between handlers
Event ==
    /\ program \in {"v2", "v3"}
    /\ gui_pc = "idle"
    /\ ops < MaxStreamOps
    /\ ops' = ops + 1

stream_start_streaming ==
    /\ baseline_sequence # <<>>
    /\ osc_client
    /\ is_streaming' = TRUE
    /\ stop_event' = FALSE
    /\ threads' =
         Append([t \in DOMAIN threads |-> [threads[t] EXCEPT !.checked = FALSE]],
                [pc |-> IF fps_valid THEN "while" ELSE "done",
                 frame_count |-> 0, sequence |-> "baseline",
                 checked |-> FALSE])
    /\ last_frame_sent' = -1
    /\ UNCHANGED <<StreamSettings, current_mode, left_turn_sequence,
                   right_turn_sequence, data_mode, gui_pc, osc_send_count,
                   osc_error_count, frame, frame_kind, mode_writer>>

stream_stop_streaming ==
    /\ is_streaming' = FALSE
    /\ stop_event' = TRUE
    /\ UNCHANGED <<StreamSettings, StreamWorkerVars, current_mode,
                   left_turn_sequence, right_turn_sequence, data_mode, gui_pc,
                   mode_writer>>

toggle_streaming ==
    /\ Event
    /\ IF ~is_streaming THEN stream_start_streaming ELSE stream_stop_streaming

\* process_text_command with a text parsed as STOP (V3)
text_stop ==
    /\ program = "v3"
    /\ Event
    /\ stream_stop_streaming

\* start_left_turn / start_right_turn up to the assignment of current_mode
\* (the buttons are enabled exactly while is_streaming)
start_turn(mode, next_pc) ==
    /\ Event
    /\ is_streaming
    /\ current_mode' = mode
    /\ mode_writer' = "gui"
    /\ gui_pc' = next_pc
    /\ UNCHANGED <<StreamSettings, StreamWorkerVars, is_streaming, stop_event,
                   left_turn_sequence, right_turn_sequence, data_mode>>

start_left_turn == start_turn("TURNING_LEFT", "left_sequence")

start_right_turn == start_turn("TURNING_RIGHT", "right_sequence")

\* start_left_turn / start_right_turn from generate_turn_sequence on
generate_turn_sequence ==
    /\ gui_pc \in {"left_sequence", "right_sequence"}
    /\ gui_pc' = "idle"
    /\ IF gui_pc = "left_sequence"
       THEN left_turn_sequence' = LeftData /\ UNCHANGED right_turn_sequence
       ELSE right_turn_sequence' = RightData /\ UNCHANGED left_turn_sequence
    /\ UNCHANGED <<StreamSettings, StreamWorkerVars, is_streaming, stop_event,
                   current_mode, data_mode, ops, mode_writer>>

stream_return_to_baseline ==
    /\ Event
    /\ is_streaming
    /\ current_mode' = "BASELINE"
    /\ mode_writer' = "gui"
    /\ UNCHANGED <<StreamSettings, StreamWorkerVars, is_streaming, stop_event,
                   left_turn_sequence, right_turn_sequence, data_mode, gui_pc>>

\* set_real_data_mode / set_mock_data_mode (V3; buttons enabled while
\* is_streaming)
set_data_mode ==
    /\ program = "v3"
    /\ Event
    /\ is_streaming
    /\ data_mode' = IF data_mode = "REAL" THEN "MOCK" ELSE "REAL"
    /\ UNCHANGED <<StreamSettings, StreamWorkerVars, is_streaming, stop_event,
                   current_mode, left_turn_sequence, right_turn_sequence,
                   gui_pc, mode_writer>>

\* V3: the columns of baseline_sitting_pose that COLUMN_TO_OSC maps to a
\* bone and an axis, with the column means as loaded by
\* load_baseline_sitting_pose
SittingPose ==
    << [address |-> "/bone/pelvis/pitch", value |-> 0],
       [address |-> "/bone/spine_01/pitch", value |-> 1] >>

\* the sends of trigger_sitting_pose, all in one try block: the first
\* send_message that raises ends the handler
SittingSends(failed) ==
    IF failed
    THEN << [address |-> "/cmd/pose", value |-> "sitting", ok |-> FALSE] >>
    ELSE << [address |-> "/cmd/pose", value |-> "sitting", ok |-> TRUE] >>
         \o [i \in DOMAIN SittingPose |->
                [address |-> SittingPose[i].address,
                 value |-> SittingPose[i].value, ok |-> TRUE]]

\* process_text_command with a text parsed as POSE_SITTING (V3):
\* trigger_sitting_pose, run by the Tk main loop; it counts nothing
trigger_sitting_pose ==
    /\ program = "v3"
    /\ Event
    /\ osc_client
    /\ \E failed \in BOOLEAN : frame' = SittingSends(failed)
    /\ frame_kind' = "sit"
    /\ UNCHANGED <<StreamSettings, threads, osc_send_count, osc_error_count,
                   last_frame_sent, is_streaming, stop_event, current_mode,
                   left_turn_sequence, right_turn_sequence, data_mode, gui_pc,
                   mode_writer>>

\* texts the operator types into the host and the port entry
HostTexts == {OSC_HOST, "10.0.0.5"}

PortTexts == { <<"7", "0", "0", "1">>, <<"7", "0", "0", "o">> }

\* int(text) of a text without blanks or sign: its value, or ValueError
RECURSIVE int(_)
int(chars) ==
    LET digits == {d \in 0..9 : ToString(d) = chars[Len(chars)]}
        rest == IF Len(chars) = 1 THEN [raised |-> FALSE, value |-> 0]
                ELSE int(SubSeq(chars, 1, Len(chars) - 1))
    IN IF chars = <<>> \/ digits = {} \/ rest.raised
       THEN [raised |-> TRUE, value |-> 0]
       ELSE [raised |-> FALSE,
             value |-> 10 * rest.value + (CHOOSE d \in digits : TRUE)]

\* update_osc_client: osc_host is assigned before int() can raise; the
\* ValueError is shown in a message box and the rest is skipped
update_osc_client(host_text, port_text) ==
    /\ osc_host' = host_text
    /\ IF int(port_text).raised
       THEN UNCHANGED <<osc_port, osc_client, client_address>>
       ELSE /\ osc_port' = int(port_text).value
            /\ osc_client' = TRUE
            /\ client_address' = <<host_text, int(port_text).value>>

\* an apply_osc_settings that does not look at is_streaming
apply_osc_settings_while_streaming ==
    /\ Event
    /\ \E host_text \in HostTexts, port_text \in PortTexts :
          /\ port_valid' = ~int(port_text).raised
          /\ update_osc_client(host_text, port_text)
    /\ UNCHANGED <<program, channels, channel_mapping, normalization_params,
                   baseline_sequence, fps_valid, gui_only_vars, nlp_vars,
                   StreamWorkerVars, is_streaming, stop_event, current_mode,
                   left_turn_sequence, right_turn_sequence, data_mode, gui_pc,
                   mode_writer>>

\* the Apply button with texts typed into the host and port entries:
\* apply_osc_settings and its update_osc_client
apply_osc_settings ==
    /\ Event
    /\ \E host_text \in HostTexts, port_text \in PortTexts :
          /\ port_valid' = ~int(port_text).raised
          /\ IF is_streaming
             THEN UNCHANGED <<osc_host, osc_port, osc_client, client_address>>
             ELSE update_osc_client(host_text, port_text)
    /\ UNCHANGED <<program, channels, channel_mapping, normalization_params,
                   baseline_sequence, fps_valid, gui_only_vars, nlp_vars,
                   StreamWorkerVars, is_streaming, stop_event, current_mode,
                   left_turn_sequence, right_turn_sequence, data_mode, gui_pc,
                   mode_writer>>

StreamNext ==
    \/ apply_osc_settings
    \/ \E t \in DOMAIN threads : StreamWhile(t)
    \/ \E t \in DOMAIN threads : StreamSend(t)
    \/ toggle_streaming
    \/ text_stop
    \/ start_left_turn
    \/ start_right_turn
    \/ generate_turn_sequence
    \/ stream_return_to_baseline
    \/ set_data_mode
    \/ trigger_sitting_pose

---------------------------------------------------------------------------
(* The text command line.  A text is its sequence of tokens (the maximal   *)
(* runs of non-blank characters, written in lower case) with two marks:    *)
(* `padded` when the text has leading or trailing blanks and `upper` when  *)
(* it was typed with capital letters.  A token is a word or a number; a    *)
(* number is kept in tenths.                                               *)

W(word) == [word |-> word, num |-> 0]

N(tenths) == [word |-> "#", num |-> tenths]

Words(phrase) == [i \in DOMAIN phrase |-> W(phrase[i])]

Text(tokens) == [tokens |-> tokens, padded |-> FALSE, upper |-> FALSE]

\* str.strip and str.lower
Strip(raw) == [raw EXCEPT !.padded = FALSE]

Lower(raw) == [raw EXCEPT !.upper = FALSE]

\* a compiled pattern \b w1 \s+ w2 ... \b, every w a set of alternatives
\* (compiled with re.IGNORECASE): pattern.search(text)
\* \b also holds after the colon of ":quit", ":help" and ":dry"
Search(pattern, raw) ==
    LET bare(word) == CASE word = ":quit" -> "quit"
                        [] word = ":help" -> "help"
                        [] word = ":dry" -> "dry"
                        [] OTHER -> word
    IN \E start \in 1..(Len(raw.tokens) - Len(pattern) + 1) :
          \A k \in DOMAIN pattern :
              bare(raw.tokens[start + k - 1].word) \in pattern[k]

\* NLPCommandParser.commands, in the order of the dict; a pattern with
\* alternatives of several words is written as one pattern per alternative
Commands ==
  LET Turners == {"turn", "steer", "go"}
      Basics == {"basic", "baseline", "default", "normal", "center",
                 "straight", "neutral"}
  IN
    << [name |-> "turn_left", action |-> "TURN_LEFT",
        patterns |-> << <<Turners, {"left", "l"}>>,
                        <<{"left", "l"}, {"turn", "steer"}>>,
                        <<{"turn"}, {"to"}, {"the"}, {"left"}>>,
                        <<{"steer"}, {"left"}>>,
                        <<{"go"}, {"left"}>> >>],
       [name |-> "turn_right", action |-> "TURN_RIGHT",
        patterns |-> << <<Turners, {"right", "r"}>>,
                        <<{"right", "r"}, {"turn", "steer"}>>,
                        <<{"turn"}, {"to"}, {"the"}, {"right"}>>,
                        <<{"steer"}, {"right"}>>,
                        <<{"go"}, {"right"}>> >>],
       [name |-> "basic_position", action |-> "BASELINE",
        patterns |-> << <<Basics, {"position", "pose", "posture"}>>,
                        <<{"return"}, {"to"}, Basics>>,
                        <<Basics>>,
                        <<{"straighten"}, {"up"}>>,
                        <<{"center"}, {"position"}>> >>],
       [name |-> "stop", action |-> "STOP",
        patterns |-> << <<{"stop", "halt", "pause", "end", "quit", "exit"}>>,
                        <<{"stop"}, {"turning", "steering", "moving"}>> >>],
       [name |-> "sit", action |-> "POSE_SITTING",
        patterns |-> << <<{"sit"}>>,
                        <<{"sit"}, {"down"}>>,
                        <<{"make"}, {"it"}, {"sit"}>>,
                        <<{"sitting"}, {"position"}>>,
                        <<{"baseline"}, {"sitting"}>>,
                        <<{"assume"}, {"seated"}>>,
                        <<{"go"}, {"to"}, {"sitting"}>> >>] >>

\* `for pattern in self.compiled_patterns[cmd_name]: if pattern.search(text)`
Matches(c, raw) ==
    \E k \in DOMAIN Commands[c].patterns : Search(Commands[c].patterns[k], raw)

\* a loop in which a later category overrides an earlier one
RECURSIVE LastMatch(_, _)
LastMatch(c, raw) ==
    IF c > Len(Commands) THEN 0
    ELSE LET later == LastMatch(c + 1, raw)
         IN IF later # 0 THEN later
            ELSE IF Matches(c, raw) THEN c ELSE 0

\* `for cmd_name, cmd_data in self.commands.items()`: the first category
\* from c on with a matching pattern, 0 if there is none
RECURSIVE FirstMatch(_, _)
FirstMatch(c, raw) ==
    IF c > Len(Commands) THEN 0
    ELSE IF Matches(c, raw) THEN c
    ELSE FirstMatch(c + 1, raw)

\* a parser without the check for empty text: the text goes through the
\* trimming and the patterns like any other
parse_command_unguarded(raw) ==
    LET lowered == Lower(Strip(raw))
        c == FirstMatch(1, lowered)
    IN IF c = 0
       THEN [action |-> "UNKNOWN", text |-> lowered, confidence |-> 0]
       ELSE [action |-> Commands[c].action, text |-> lowered,
             confidence |-> 1]

\* NLPCommandParser.parse_command: (action, original_text, confidence)
parse_command(raw) ==
    IF raw.tokens = <<>>
    THEN [action |-> "UNKNOWN", text |-> raw, confidence |-> 0]
    ELSE LET lowered == Lower(Strip(raw))
             c == FirstMatch(1, lowered)
         IN IF c = 0
            THEN [action |-> "UNKNOWN", text |-> lowered, confidence |-> 0]
            ELSE [action |-> Commands[c].action, text |-> lowered,
                  confidence |-> 1]

\* the phrases that a pattern lists: one alternative at every position
RECURSIVE PhrasesUpTo(_, _)
PhrasesUpTo(pattern, k) ==
    IF k = 0 THEN {<<>>}
    ELSE {Append(p, w) : p \in PhrasesUpTo(pattern, k - 1), w \in pattern[k]}

PhrasesOf(c) ==
    UNION {PhrasesUpTo(Commands[c].patterns[k], Len(Commands[c].patterns[k])) :
              k \in DOMAIN Commands[c].patterns}

(* NLPParser and the intents of osc_streamer_v3.                           *)

\* Config.load_from_file(): defaults, modifiers and limits (in tenths), and
\* the synonym tables
Config ==
    [default_angle |-> 150, default_speed |-> 900,
     a_little |-> 50, a_lot |-> 600, slowly |-> 300, quickly |-> 2700,
     angle_min |-> 0, angle_max |-> 1800,
     speed_min |-> 10, speed_max |-> 3600,
     duration_min |-> 0, duration_max |-> 100,
     left_words |-> {"left", "counterclockwise", "ccw"},
     right_words |-> {"right", "clockwise", "cw"},
     turn_verbs |-> {"turn", "rotate", "look", "face"}]

MinOf(S) == CHOOSE x \in S : \A y \in S : x <= y

\* positions where the words of `phrase` follow each other; "#" stands for
\* any number
Places(tokens, phrase) ==
    {i \in 1..(Len(tokens) - Len(phrase) + 1) :
        \A k \in DOMAIN phrase : tokens[i + k - 1].word = phrase[k]}

\* a clamp that forgets the lower limit
ClampUpperOnly(lo, hi, value) == IF value > hi THEN hi ELSE value

Clamp(lo, hi, value) ==
    IF value < lo THEN lo ELSE IF value > hi THEN hi ELSE value

\* the intents; a field that a variant does not have holds "" or 0
Intent(type) ==
    [type |-> type, scope |-> "", direction |-> "", angle_deg |-> 0,
     speed_deg_s |-> 0, has_duration |-> FALSE, duration_s |-> 0,
     original_text |-> Text(<<>>), reason |-> ""]

\* the numbers of a turn before clamping: the explicit number, else the
\* modifier, else the default
AngleOf(tokens) ==
    IF Places(tokens, <<"#", "degrees">>) # {}
    THEN tokens[MinOf(Places(tokens, <<"#", "degrees">>))].num
    ELSE IF Places(tokens, <<"a", "little">>) # {} THEN Config.a_little
    ELSE IF Places(tokens, <<"a", "lot">>) # {} THEN Config.a_lot
    ELSE Config.default_angle

SpeedOf(tokens) ==
    IF Places(tokens, <<"at", "#", "deg/s">>) # {}
    THEN tokens[MinOf(Places(tokens, <<"at", "#", "deg/s">>)) + 1].num
    ELSE IF Places(tokens, <<"slowly">>) # {} THEN Config.slowly
    ELSE IF Places(tokens, <<"quickly">>) # {} THEN Config.quickly
    ELSE Config.default_speed

\* the turn pattern family
TurnIntent(tokens) ==
  LET DurationPlaces == Places(tokens, <<"for", "#", "seconds">>)
                            \cup Places(tokens, <<"for", "#", "s">>)
      DirectionPlaces ==
          {i \in DOMAIN tokens :
              tokens[i].word \in Config.left_words \cup Config.right_words}
  IN
    [Intent("Turn") EXCEPT
        !.scope = IF Places(tokens, <<"head">>) # {} \/ tokens[1].word = "look"
                  THEN "head" ELSE "body",
        !.direction =
            IF tokens[MinOf(DirectionPlaces)].word \in Config.left_words
            THEN "left" ELSE "right",
        !.angle_deg = Clamp(Config.angle_min, Config.angle_max, AngleOf(tokens)),
        !.speed_deg_s =
            Clamp(Config.speed_min, Config.speed_max, SpeedOf(tokens)),
        !.has_duration = DurationPlaces # {},
        !.duration_s =
            IF DurationPlaces = {} THEN 0
            ELSE Clamp(Config.duration_min, Config.duration_max,
                       tokens[MinOf(DurationPlaces) + 1].num)]

\* NLPParser.parse
parse(raw) ==
    LET tokens == Lower(Strip(raw)).tokens
        unknown(reason) == [Intent("Unknown") EXCEPT !.original_text = raw,
                                                     !.reason = reason]
    IN IF tokens = <<>> THEN unknown("Empty input")
       ELSE IF Len(tokens) = 1 /\ tokens[1].word \in {"help", ":help"}
       THEN Intent("Help")
       ELSE IF Len(tokens) = 1 /\ tokens[1].word \in {"quit", ":quit"}
       THEN Intent("Quit")
       ELSE IF Len(tokens) = 1 /\ tokens[1].word = ":dry"
       THEN Intent("DryRun")
       ELSE IF /\ tokens[1].word \in Config.turn_verbs
               /\ \E i \in DOMAIN tokens :
                     tokens[i].word \in Config.left_words \cup Config.right_words
       THEN TurnIntent(tokens)
       ELSE unknown("No matching pattern")

\* arguments that leave the duration out when the intent has none
to_osc_args_omitting(i) ==
    IF i.type = "Turn"
    THEN << [kind |-> "str", s |-> i.direction, f |-> 0],
            [kind |-> "float", s |-> "", f |-> i.angle_deg],
            [kind |-> "float", s |-> "", f |-> i.speed_deg_s] >>
         \o (IF i.has_duration
             THEN << [kind |-> "float", s |-> "", f |-> i.duration_s] >>
             ELSE <<>>)
    ELSE <<>>

\* Intent.to_osc_args; an argument is a string, a float (in tenths) or NaN
to_osc_args(i) ==
  LET StrArg(s) == [kind |-> "str", s |-> s, f |-> 0]
      FloatArg(f) == [kind |-> "float", s |-> "", f |-> f]
      NaNArg == [kind |-> "nan", s |-> "", f |-> 0]
  IN
    IF i.type = "Turn"
    THEN << StrArg(i.direction), FloatArg(i.angle_deg),
            FloatArg(i.speed_deg_s),
            IF i.has_duration THEN FloatArg(i.duration_s) ELSE NaNArg >>
    ELSE <<>>

\* OSCRouter.address_map as constructed, and with the head scope removed
AddressMaps ==
    { [scope \in {"body", "head"} |->
          IF scope = "body" THEN "/cmd/turn" ELSE "/cmd/head_turn"],
      [scope \in {"body"} |-> "/cmd/turn"] }

\* what send_message may do: return True, return False, or raise
TransportOutcomes == {"sent", "refused", "raised"}

Message(kind, about, address) ==
    [kind |-> kind, text |-> about, address |-> address]

NoResult == [success |-> FALSE, message |-> Message("", Text(<<>>), "")]

\* the result of routing, the sends made for it and the flag afterwards
Routed(success, message, sends, flag) ==
    [success |-> success, message |-> message, sends |-> sends,
     dry_run |-> flag]

\* a router that lets an exception of the transport pass: no result then
route_turn_raising(i, outcome) ==
    IF i.scope \notin DOMAIN address_map
    THEN Routed(FALSE, Message("No OSC address for scope", Text(<<>>), ""),
                <<>>, dry_run)
    ELSE IF dry_run
    THEN Routed(TRUE, Message("Dry run", Text(<<>>), address_map[i.scope]),
                <<>>, dry_run)
    ELSE LET send == [address |-> address_map[i.scope],
                      args |-> to_osc_args(i), outcome |-> outcome]
         IN CASE outcome = "sent" ->
                   Routed(TRUE,
                          Message("Sent", Text(<<>>), address_map[i.scope]),
                          <<send>>, dry_run)
              [] outcome = "refused" ->
                   Routed(FALSE,
                          Message("Failed to send", Text(<<>>),
                                  address_map[i.scope]),
                          <<send>>, dry_run)
              [] OTHER ->
                   Routed(NoResult.success, NoResult.message, <<send>>,
                          dry_run)

\* a router that sends whether or not the dry-run flag is set
route_turn_ignoring_flag(i, outcome) ==
    IF i.scope \notin DOMAIN address_map
    THEN Routed(FALSE, Message("No OSC address for scope", Text(<<>>), ""),
                <<>>, dry_run)
    ELSE LET send == [address |-> address_map[i.scope],
                      args |-> to_osc_args(i), outcome |-> outcome]
         IN IF outcome = "sent"
            THEN Routed(TRUE,
                        Message("Sent", Text(<<>>), address_map[i.scope]),
                        <<send>>, dry_run)
            ELSE Routed(FALSE,
                        Message("Failed to send", Text(<<>>),
                                address_map[i.scope]),
                        <<send>>, dry_run)

\* a router that falls back to the body address for a scope without entry
route_turn_default_address(i, outcome) ==
    LET address == IF i.scope \in DOMAIN address_map
                   THEN address_map[i.scope] ELSE "/cmd/turn"
    IN IF dry_run
       THEN Routed(TRUE, Message("Dry run", Text(<<>>), address), <<>>,
                   dry_run)
       ELSE LET send == [address |-> address, args |-> to_osc_args(i),
                         outcome |-> outcome]
            IN IF outcome = "sent"
               THEN Routed(TRUE, Message("Sent", Text(<<>>), address),
                           <<send>>, dry_run)
               ELSE Routed(FALSE, Message("Failed to send", Text(<<>>), address),
                           <<send>>, dry_run)

\* OSCRouter.route for a TurnIntent
route_turn(i, outcome) ==
    IF i.scope \notin DOMAIN address_map
    THEN Routed(FALSE, Message("No OSC address for scope", Text(<<>>), ""),
                <<>>, dry_run)
    ELSE IF dry_run
    THEN Routed(TRUE, Message("Dry run", Text(<<>>), address_map[i.scope]),
                <<>>, dry_run)
    ELSE LET send == [address |-> address_map[i.scope],
                      args |-> to_osc_args(i), outcome |-> outcome]
         IN IF outcome = "sent"
            THEN Routed(TRUE,
                        Message("Sent", Text(<<>>), address_map[i.scope]),
                        <<send>>, dry_run)
            ELSE Routed(FALSE,
                        Message("Failed to send", Text(<<>>),
                                address_map[i.scope]),
                        <<send>>, dry_run)

\* OSCRouter.route
route(i, outcome) ==
    CASE i.type = "Turn" -> route_turn(i, outcome)
      [] i.type = "Unknown" ->
           Routed(FALSE, Message("Unknown command", i.original_text, ""),
                  <<>>, dry_run)
      [] i.type = "Help" ->
           Routed(TRUE, Message("Available commands", Text(<<>>), ""), <<>>,
                  dry_run)
      [] i.type = "Quit" ->
           Routed(TRUE, Message("Goodbye!", Text(<<>>), ""), <<>>, dry_run)
      [] OTHER ->
           Routed(TRUE, Message("Dry run mode toggled", Text(<<>>), ""), <<>>,
                  ~dry_run)

(* The texts put to the command line.                                      *)

\* turn commands: a head, then an angle, a speed and a duration or none
TurnTexts ==
  LET
    TurnHeads ==
    { Words(<<"turn", "left">>), Words(<<"turn", "head", "right">>),
      Words(<<"look", "left">>), Words(<<"rotate", "body", "ccw">>) }

    AngleParts ==
    { <<>>, <<N(300), W("degrees")>>, <<N(2000), W("degrees")>>,
      <<N(-100), W("degrees")>>, Words(<<"a", "little">>),
      Words(<<"a", "lot">>) }

    SpeedParts ==
    { <<>>, <<W("at"), N(1200), W("deg/s")>>, <<W("at"), N(5000), W("deg/s")>>,
      <<W("at"), N(5), W("deg/s")>>, <<W("slowly")>>, <<W("quickly")>> }

    DurationParts ==
    { <<>>, <<W("for"), N(5), W("s")>>, <<W("for"), N(200), W("seconds")>>,
      <<W("for"), N(-10), W("seconds")>> }
  IN
    {Text(h \o a \o s \o d) :
        h \in TurnHeads, a \in AngleParts, s \in SpeedParts,
        d \in DurationParts}

\* the turn commands, every phrase that the patterns of NLPCommandParser
\* list, and other lines, plain, with blanks around them or in capitals
Texts ==
  LET
    PhraseTexts ==
    {Text(Words(p)) : p \in UNION {PhrasesOf(c) : c \in DOMAIN Commands}}
    PlainTexts ==
    { Text(<<>>), Text(Words(<<"help">>)), Text(Words(<<":help">>)),
      Text(Words(<<":quit">>)), Text(Words(<<":dry">>)),
      Text(Words(<<"do", "something", "weird">>)),
      Text(Words(<<"please", "turn", "left", "then", "stop">>)),
      Text(Words(<<"sitting">>)),
      Text(Words(<<"turn", "rightwards">>)) }
    Typed(t) == {t, [t EXCEPT !.padded = TRUE], [t EXCEPT !.upper = TRUE]}
  IN TurnTexts \cup PhraseTexts \cup UNION {Typed(t) : t \in PlainTexts}

(* Spec: the command line                                                  *)

NlpIdle ==
    /\ text = Text(<<>>)
    /\ intent = Intent("")
    /\ parsed = parse_command(Text(<<>>))
    /\ dry_run = FALSE
    /\ address_map = <<>>
    /\ route_result = NoResult
    /\ transport = <<>>
    /\ nlp_pc = "off"

NlpInit ==
    /\ program = "nlp"
    /\ text = Text(<<>>)
    /\ intent = Intent("")
    /\ parsed = parse_command(Text(<<>>))
    /\ dry_run = FALSE
    /\ address_map \in AddressMaps
    /\ route_result = NoResult
    /\ transport = <<>>
    /\ nlp_pc = "read"
    /\ channels = <<>>
    /\ current_mode = "Idle"
    /\ osc_client = TRUE
    /\ osc_send_count = 0
    /\ osc_error_count = 0
    /\ fps_valid = TRUE
    /\ port_valid = TRUE
    /\ ops = 0
    /\ frame = <<>>
    /\ frame_kind = "none"
    /\ mode_writer = "init"

\* a line is read and parsed, by NLPParser.parse and by
\* NLPCommandParser.parse_command
ReadText ==
    /\ nlp_pc = "read"
    /\ \E t \in Texts :
          /\ text' = t
          /\ intent' = parse(t)
          /\ parsed' = parse_command(t)
    /\ nlp_pc' = "route"
    /\ UNCHANGED <<gui_vars, stream_only_vars, address_map, dry_run,
                   route_result, transport>>

\* OSCRouter.route of the intent; QuitIntent ends the command line
RouteIntent ==
    /\ nlp_pc = "route"
    /\ \E outcome \in TransportOutcomes :
          \E r \in {route(intent, outcome)} :
             /\ route_result' = [success |-> r.success, message |-> r.message]
             /\ transport' = r.sends
             /\ dry_run' = r.dry_run
    /\ nlp_pc' = IF intent.type = "Quit" THEN "off" ELSE "show"
    /\ UNCHANGED <<gui_vars, stream_only_vars, address_map, text, intent,
                   parsed>>

\* the result is shown and the loop turns to the next line: the line, its
\* intent and its result are dropped
NextLine ==
    /\ nlp_pc = "show"
    /\ text' = Text(<<>>)
    /\ intent' = Intent("")
    /\ parsed' = parse_command(Text(<<>>))
    /\ route_result' = NoResult
    /\ transport' = <<>>
    /\ nlp_pc' = "read"
    /\ UNCHANGED <<gui_vars, stream_only_vars, address_map, dry_run>>

NlpNext ==
    \/ ReadText
    \/ RouteIntent
    \/ NextLine

---------------------------------------------------------------------------
(* MetaHumanStreamerV3: the command entry.                                 *)

\* texts typed into the command entry that name no command
CommandTexts ==
    { Text(<<>>), [Text(<<>>) EXCEPT !.padded = TRUE],
      Text(Words(<<"do", "something", "weird">>)) }

\* what the command entry handler leaves alone in every case
CommandSettings ==
    <<program, channels, channel_mapping, normalization_params,
      baseline_sequence, osc_client, fps_valid, port_valid, osc_host,
      osc_port, client_address, gui_only_vars,
      intent, parsed, dry_run, address_map, route_result, transport, nlp_pc,
      StreamWorkerVars, is_streaming, stop_event, current_mode,
      left_turn_sequence, right_turn_sequence, data_mode, mode_writer>>

\* process_command starts: Return was pressed with a text in the entry
\* (the texts that name a command are the actions text_stop,
\* start_left_turn, start_right_turn, stream_return_to_baseline and
\* trigger_sitting_pose)
process_command ==
    /\ program = "v3"
    /\ Event
    /\ text' \in CommandTexts
    /\ gui_pc' = "command"
    /\ UNCHANGED CommandSettings

\* process_command from strip() on: an empty text returns at once, any
\* other one is parsed by process_text_command, which only logs an
\* UNKNOWN action
process_command_end ==
    /\ program = "v3"
    /\ gui_pc = "command"
    /\ \/ Strip(text).tokens = <<>>
       \/ parse_command(Strip(text)).action = "UNKNOWN"
    /\ text' = Text(<<>>)
    /\ gui_pc' = "idle"
    /\ UNCHANGED <<ops, CommandSettings>>

\* texts that name start_left_turn, start_right_turn and return_to_baseline
StoppedTexts ==
    { Text(Words(<<"turn", "left">>)), Text(Words(<<"turn", "right">>)),
      Text(Words(<<"basic", "position">>)) }

\* process_command with one of these texts while nothing is streamed (the
\* buttons are disabled then; during a session the texts are the actions
\* start_left_turn, start_right_turn and stream_return_to_baseline)
process_command_stopped ==
    /\ program = "v3"
    /\ Event
    /\ ~is_streaming
    /\ text' \in StoppedTexts
    /\ gui_pc' = "command"
    /\ UNCHANGED CommandSettings

\* start_left_turn / start_right_turn / return_to_baseline without the
\* test of is_streaming
start_unguarded(action) ==
    /\ current_mode' = CASE action = "TURN_LEFT" -> "TURNING_LEFT"
                         [] action = "TURN_RIGHT" -> "TURNING_RIGHT"
                         [] OTHER -> "BASELINE"
    /\ mode_writer' = "gui"
    /\ gui_pc' = CASE action = "TURN_LEFT" -> "left_sequence"
                   [] action = "TURN_RIGHT" -> "right_sequence"
                   [] OTHER -> "idle"
    /\ UNCHANGED <<program, channels, channel_mapping,
                   normalization_params, baseline_sequence, osc_client,
                   fps_valid, port_valid, osc_host, osc_port, client_address,
                   gui_only_vars, intent, parsed, dry_run, address_map,
                   route_result, transport, nlp_pc, StreamWorkerVars,
                   is_streaming, stop_event, left_turn_sequence,
                   right_turn_sequence, data_mode, ops>>

\* start_left_turn / start_right_turn / return_to_baseline as called by
\* process_text_command: `if not self.is_streaming: return`, then the
\* assignment of current_mode
start_guarded(action) ==
    IF ~is_streaming
    THEN /\ gui_pc' = "idle"
         /\ UNCHANGED <<ops, CommandSettings>>
    ELSE /\ current_mode' = CASE action = "TURN_LEFT" -> "TURNING_LEFT"
                              [] action = "TURN_RIGHT" -> "TURNING_RIGHT"
                              [] OTHER -> "BASELINE"
         /\ mode_writer' = "gui"
         /\ gui_pc' = CASE action = "TURN_LEFT" -> "left_sequence"
                        [] action = "TURN_RIGHT" -> "right_sequence"
                        [] OTHER -> "idle"
         /\ UNCHANGED <<program, channels, channel_mapping,
                   normalization_params, baseline_sequence, osc_client,
                   fps_valid, port_valid, osc_host, osc_port, client_address,
                   gui_only_vars, intent, parsed, dry_run, address_map,
                   route_result, transport, nlp_pc, StreamWorkerVars,
                   is_streaming, stop_event, left_turn_sequence,
                   right_turn_sequence, data_mode, ops>>

\* process_text_command with a text parsed as TURN_LEFT, TURN_RIGHT or
\* BASELINE, and the clearing of the entry
process_text_command ==
    /\ program = "v3"
    /\ gui_pc = "command"
    /\ parse_command(Strip(text)).action \in {"TURN_LEFT", "TURN_RIGHT", "BASELINE"}
    /\ text' = Text(<<>>)
    /\ start_guarded(parse_command(Strip(text)).action)

StreamCommandNext ==
    \/ process_command
    \/ process_command_end
    \/ process_command_stopped
    \/ process_text_command

---------------------------------------------------------------------------
\* the fields of the program that is not running
GuiIdle ==
    /\ command_queue = <<>>
    /\ running = FALSE
    /\ ramp_data = <<>>
    /\ ramp_frame = 0
    /\ hold_frames = 0
    /\ hold_frame = 0
    /\ connection_active = FALSE
    /\ fps_var = 1
    /\ duration_var = 0
    /\ hold_var = 0
    /\ after_queue = <<>>
    /\ worker_pc = "done"
    /\ backoff = FALSE
    /\ gui_alive = FALSE
    /\ handled = "none"
    /\ since_turn = FALSE

StreamIdle ==
    /\ is_streaming = FALSE
    /\ stop_event = FALSE
    /\ channel_mapping = <<>>
    /\ normalization_params = [none |-> TRUE, mean |-> <<>>, std |-> <<>>]
    /\ baseline_sequence = <<>>
    /\ left_turn_sequence = <<>>
    /\ right_turn_sequence = <<>>
    /\ data_mode = "REAL"
    /\ threads = <<>>
    /\ gui_pc = "idle"
    /\ last_frame_sent = -1
    /\ osc_host = ""
    /\ osc_port = 0
    /\ client_address = <<>>

Init ==
    \/ GuiInit /\ StreamIdle /\ NlpIdle
    \/ StreamInit /\ GuiIdle /\ NlpIdle
    \/ NlpInit /\ GuiIdle /\ StreamIdle

Next == GuiNext \/ StreamNext \/ StreamCommandNext \/ NlpNext

Spec == Init /\ [][Next]_vars

\* the worker thread of MetaHumanStreamerGUI and the Tk main loop keep
\* running: each takes a step when it continuously can
WorkerNext == WorkerCommand \/ WorkerHeartbeat \/ WorkerRamp

TkNext == UpdateStatus \/ PutHeartbeat

FairSpec == Spec /\ WF_vars(WorkerNext) /\ WF_vars(TkNext)

\* the stream_worker threads of MetaHumanStreamerV2/V3 keep running
StreamWorkerNext ==
    \E t \in DOMAIN threads : StreamWhile(t) \/ StreamSend(t)

\* MetaHumanStreamerV2/V3 after construction
StreamOnlyInit == StreamInit /\ GuiIdle /\ NlpIdle

\* MetaHumanStreamerV2/V3 alone, with its worker threads scheduled fairly
StreamFairSpec ==
    /\ StreamOnlyInit
    /\ [][StreamNext \/ StreamCommandNext]_vars
    /\ WF_vars(StreamWorkerNext)

---------------------------------------------------------------------------
(* Claims                                                                  *)

\* MetaHumanStreamerGUI once the operator has pressed Start, the worker has
\* handled START_HEARTBEAT with valid entries and the main loop has shown
\* the mode; ops counts the operator events after that
StartedInit ==
    /\ program = "gui"
    /\ command_queue = <<>>
    /\ current_mode = "Heartbeat"
    /\ osc_client = TRUE
    /\ running = TRUE
    /\ channels \in ChannelConfigs \ {<<>>}
    /\ ramp_data = <<>>
    /\ ramp_frame = 0
    /\ hold_frames = 0
    /\ hold_frame = 0
    /\ connection_active = TRUE
    /\ osc_send_count = 0
    /\ osc_error_count = 0
    /\ fps_valid = TRUE
    /\ port_valid = TRUE
    /\ fps_var \in 1..MaxFps
    /\ backoff = FALSE
    /\ duration_var \in {0, MaxDurHalves}
    /\ hold_var \in {0, MaxHoldHalves}
    /\ after_queue = <<>>
    /\ worker_pc = "mode1"
    /\ gui_alive = TRUE
    /\ ops = 0
    /\ handled = "START_HEARTBEAT"
    /\ frame = <<>>
    /\ frame_kind = "none"
    /\ mode_writer = "gui"
    /\ since_turn = FALSE
    /\ StreamIdle
    /\ NlpIdle

\* MetaHumanStreamerGUI from there on
StartedSpec == StartedInit /\ [][GuiNext]_vars

\* MetaHumanStreamerV2/V3 streaming in a left turn: start_streaming, then
\* start_left_turn have run with valid entries and the worker thread has not
\* yet taken a step; ops counts the operator events after that
TurningInit ==
    /\ program \in {"v2", "v3"}
    /\ channels \in StreamConfigs
    /\ channel_mapping = ChannelMapping(channels)
    /\ normalization_params = NormalizationParams
    /\ baseline_sequence = BaselineData
    /\ left_turn_sequence = LeftData
    /\ right_turn_sequence = <<>>
    /\ fps_valid = TRUE
    /\ port_valid = TRUE
    /\ osc_client = TRUE
    /\ osc_host = OSC_HOST
    /\ osc_port = OSC_PORT
    /\ client_address = <<OSC_HOST, OSC_PORT>>
    /\ is_streaming = TRUE
    /\ stop_event = FALSE
    /\ current_mode = "TURNING_LEFT"
    /\ data_mode = "REAL"
    /\ threads = << [pc |-> "while", frame_count |-> 0,
                     sequence |-> "baseline", checked |-> FALSE] >>
    /\ gui_pc = "idle"
    /\ osc_send_count = 0
    /\ osc_error_count = 0
    /\ last_frame_sent = -1
    /\ ops = 0
    /\ frame = <<>>
    /\ frame_kind = "none"
    /\ mode_writer = "gui"
    /\ GuiIdle
    /\ NlpIdle

\* MetaHumanStreamerV2/V3 from there on
TurningSpec == TurningInit /\ [][StreamNext \/ StreamCommandNext]_vars

\* a step of the worker thread of MetaHumanStreamerGUI
WorkerStep == program = "gui" /\ worker_pc' # worker_pc

\* C2: worker_loop handles commands in the order they were put on
\* command_queue, one per iteration: the queue only grows at its tail by a
\* put, and only shrinks by the command part of an iteration removing its
\* head, which is the command handled (its status callback is the one
\* scheduled); an iteration that finds the queue non-empty handles its head.
C2_FifoOnePerIteration ==
    [][program = "gui" =>
        /\ command_queue' # command_queue =>
              \/ \E c \in COMMANDS : command_queue' = Append(command_queue, c)
              \/ /\ command_queue # <<>>
                 /\ command_queue' = Tail(command_queue)
                 /\ worker_pc = "cmd" /\ worker_pc' = "mode1"
        /\ (worker_pc = "cmd" /\ worker_pc' = "mode1" /\ command_queue # <<>>) =>
              /\ command_queue' = Tail(command_queue)
              /\ handled' = Head(command_queue)
              /\ (gui_alive /\ ModeOf(Head(command_queue)) # "none") =>
                    after_queue' = Append(after_queue,
                        StatusCallback(ModeOf(Head(command_queue))))
        /\ (worker_pc = "cmd" /\ worker_pc' = "mode1" /\ command_queue = <<>>) =>
              handled' = "none" /\ after_queue' = after_queue
    ]_vars

\* a burst: one command of the burst handled, others still queued behind it
C2_Witness ==
    /\ program = "gui"
    /\ worker_pc = "mode1"
    /\ handled = "START_HEARTBEAT"
    /\ Len(command_queue) >= 1
    /\ command_queue[1] # "START_HEARTBEAT"

\* C3: in MetaHumanStreamerGUI the mode leaves STOPPED only for HEARTBEAT
\* (a start command), leaves IDLE only for HEARTBEAT (or STOPPED, by a stop
\* command), and no ramp frame is sent while the mode is IDLE or STOPPED:
\* a turn or baseline command handled there changes nothing.
C3_IdleStoppedOnlyStart ==
    [][program = "gui" =>
        /\ (current_mode = "Stopped" /\ current_mode' # "Stopped") =>
              current_mode' = "Heartbeat"
        /\ (current_mode = "Idle" /\ current_mode' # "Idle") =>
              current_mode' \in {"Heartbeat", "Stopped"}
        /\ (WorkerStep /\ current_mode \in {"Idle", "Stopped"}) =>
              frame_kind' \notin {"ramp", "hold"}
    ]_vars

\* C4: once a TURN_LEFT, TURN_RIGHT or BASELINE command has been handled and
\* the operator issues nothing further, the mode eventually is HEARTBEAT
\* (with the worker and the Tk main loop running fairly).
C4_TurnReturnsToHeartbeat ==
    since_turn ~> (~since_turn \/ current_mode = "Heartbeat")

RampFrames == (duration_var * fps_var) \div 2

HoldFrames == (hold_var * fps_var) \div 2

\* the ramp and hold values of channel i for a direction
RampValue(i, direction, j) ==
    <<Amplitude(channels[i], direction) * EnvNum(RampFrames, j),
      EnvDen(RampFrames)>>

\* C5: for a turn handled with an OSC client and at least one channel, every
\* iteration of the worker in a ramp mode either sends ramp frame number
\* ramp_frame (amplitude*envelope[ramp_frame] on each channel, in channel
\* order) while ramp_frame < ramp_frames, or then sends a hold frame (the
\* last ramp value on each channel) while hold_frame < hold_frames, or, only
\* after ramp_frames ramp frames and hold_frames hold frames, requests the
\* return to HEARTBEAT.
C5_RampThenHoldThenReturn ==
    [][(program = "gui" /\ worker_pc = "mode2" /\ worker_pc' = "cmd"
        /\ current_mode \in RampModes /\ osc_client /\ ramp_data # <<>>) =>
        \E direction \in {"right", "left", "baseline"} :
            \/ /\ frame_kind' = "ramp"
               /\ ramp_frame < RampFrames
               /\ ramp_frame' = ramp_frame + 1
               /\ hold_frame' = 0
               /\ Len(frame') = Len(channels)
               /\ \A i \in DOMAIN channels :
                     /\ frame'[i].address = channels[i].address
                     /\ frame'[i].value = RampValue(i, direction, ramp_frame)
            \/ /\ frame_kind' = "hold"
               /\ ramp_frame = RampFrames
               /\ hold_frame < HoldFrames
               /\ hold_frame' = hold_frame + 1
               /\ Len(frame') = Len(channels)
               /\ \A i \in DOMAIN channels :
                     /\ frame'[i].address = channels[i].address
                     /\ frame'[i].value = RampValue(i, direction, RampFrames - 1)
            \/ /\ frame_kind' = "complete"
               /\ ramp_frame = RampFrames
               /\ hold_frame = HoldFrames
               /\ frame' = <<>>
               /\ after_queue' = Append(after_queue, PutCallback)
    ]_vars

\* C6: current_mode is written only by the streaming worker thread, never by
\* the GUI/main thread.
C6_ModeWrittenByWorkerOnly == mode_writer # "gui"

StreamingModes == {"Heartbeat"} \cup RampModes

\* C8: an iteration of worker_loop sends one message per configured channel
\* if the mode it reads is HEARTBEAT (value 0.0 on every channel) or
\* TURNING_LEFT, TURNING_RIGHT or BASELINE, and sends no per-channel message
\* if the mode is IDLE or STOPPED.  (An iteration in which the mode becomes
\* HEARTBEAT between the two tests of current_mode is left out.)
C8_FramePerIteration ==
    [][program = "gui" =>
        /\ (worker_pc = "mode1" /\ worker_pc' # "mode1"
            /\ current_mode = "Heartbeat") =>
              /\ worker_pc' = "cmd"
              /\ Len(frame') = Len(channels)
              /\ \A i \in DOMAIN channels :
                    /\ frame'[i].address = channels[i].address
                    /\ frame'[i].value = Zero
        /\ (worker_pc = "mode2" /\ worker_pc' = "cmd"
            /\ current_mode \in RampModes) =>
              /\ Len(frame') = Len(channels)
              /\ \A i \in DOMAIN channels :
                    frame'[i].address = channels[i].address
        /\ (worker_pc = "mode2" /\ worker_pc' = "cmd"
            /\ current_mode \in {"Idle", "Stopped"}) =>
              frame' = <<>>
    ]_vars

Streamer == program \in {"v2", "v3"}

\* C1: in MetaHumanStreamerV2/V3 at most one stream_worker thread executes
\* its loop: never have two threads both passed the loop's test since the
\* latest start_streaming.
C1_OneWorkerInLoop ==
    Cardinality({t \in DOMAIN threads : threads[t].checked}) <= 1

\* the step of a stream_worker thread that streams its frame
FrameStep ==
    /\ Streamer
    /\ \E t \in DOMAIN threads :
          threads[t].pc = "send" /\ threads'[t].pc = "while"

\* C7: the values sent on /mh/frame since the latest start_streaming are
\* strictly increasing: a frame number sent is greater than the one sent
\* last.
C7_FrameNumbersIncrease ==
    [][FrameStep =>
        \A k \in DOMAIN frame' :
            (frame'[k].address = "/mh/frame" /\ frame'[k].ok) =>
                frame'[k].value > last_frame_sent
    ]_vars

\* the configured channels for which stream_frame attempts a send
IsSending(channel) ==
    channel.source_column \in DOMAIN channel_mapping =>
        channel_mapping[channel.source_column] < Len(BaselineData[1])

SendingChannels == SelectSeq(channels, IsSending)

\* a frame step of the worker of MetaHumanStreamerGUI: send_heartbeat or a
\* ramp or hold frame of send_ramp_frame
GuiFrameStep ==
    /\ program = "gui"
    /\ worker_pc \in {"mode1", "mode2"}
    /\ worker_pc' = "cmd"
    /\ frame_kind' \in {"heartbeat", "ramp", "hold"}

\* channels a frame of the GUI worker attempts when no send fails: all of
\* them, or in a ramp or hold frame those that have an entry in ramp_data
Attempted ==
    IF frame_kind' \in {"ramp", "hold"}
    THEN Min(Len(channels), Len(ramp_data))
    ELSE Len(channels)

\* C9: a failed send on a channel adds exactly one to osc_error_count and
\* does not end the frame or the loop: in a frame of send_heartbeat,
\* send_ramp_frame or stream_frame every channel the frame attempts without
\* failures is attempted whichever sends fail, osc_error_count grows by the
\* number of failed sends, and the worker goes on to its next iteration.
C9_FailureCountedFrameContinues ==
    [][/\ GuiFrameStep =>
            /\ Len(frame') = Attempted
            /\ \A i \in 1..Attempted :
                  frame'[i].address = channels[i].address
            /\ osc_error_count' = osc_error_count + Failures(frame')
            /\ running' = running
       /\ (FrameStep /\ frame_kind' = "stream") =>
            /\ Len(frame') >= Len(SendingChannels)
            /\ \A i \in DOMAIN SendingChannels :
                  frame'[i].address = SendingChannels[i].osc_address
            /\ \E k \in DOMAIN frame' : frame'[k].address = "/mh/frame"
            /\ osc_error_count' = osc_error_count + Failures(frame')
            /\ stop_event' = stop_event
    ]_vars

\* a frame of stream_frame whose first send failed and whose later channel
\* was sent, the failure counted once
C9_Witness ==
    /\ Streamer
    /\ frame_kind = "stream"
    /\ Len(channels) >= 2
    /\ ~frame[1].ok
    /\ frame[2].ok
    /\ frame[2].address = channels[2].osc_address
    /\ osc_error_count = 1

\* C10: in every frame of stream_frame exactly one send is attempted on the
\* osc_address of every configured channel.
C10_OneSendPerChannel ==
    [][(FrameStep /\ frame_kind' = "stream") =>
        \A i \in DOMAIN channels :
            Cardinality({k \in DOMAIN frame' :
                frame'[k].address = channels[i].osc_address}) = 1
    ]_vars

\* the channels whose source_column has no feature index: those not among
\* the feature names
Unresolved(channel) == channel.source_column \notin DOMAIN channel_mapping

AllWorkersDone == \A t \in DOMAIN threads : threads[t].pc = "done"

\* C12: after stop_streaming, unless start_streaming follows, every
\* stream_worker thread terminates (the threads being scheduled fairly), and
\* while the stop flag stays set no thread begins another frame: a thread
\* sends at most the frame it had in progress when the flag was set.
C12_WorkerStopsWithinOneFrame ==
    /\ [][(stop_event /\ stop_event') =>
            \A t \in DOMAIN threads :
                threads'[t].pc = "send" => threads[t].pc = "send"]_vars
    /\ stop_event ~> (AllWorkersDone \/ ~stop_event)

\* a worker that has streamed and has terminated after stop_streaming
C12_Witness ==
    /\ Streamer
    /\ stop_event
    /\ ~is_streaming
    /\ threads # <<>>
    /\ AllWorkersDone
    /\ \E t \in DOMAIN threads : threads[t].frame_count >= 1

\* C13: an exception in an iteration of worker_loop never ends the worker
\* thread: the thread leaves the loop only when running is false; an
\* iteration whose FPS text does not parse ends in the except handler and
\* the loop goes back to its test, and from the test, running being true, the
\* next iteration begins.
C13_ExceptionKeepsWorkerAlive ==
    [][program = "gui" =>
        /\ (worker_pc # "done" /\ worker_pc' = "done") =>
              (~running /\ worker_pc = "cmd")
        /\ (WorkerStep /\ worker_pc \in {"mode1", "mode2"}) =>
              /\ worker_pc' \in {"mode2", "cmd"}
              /\ (worker_pc' = "cmd") => (backoff' = ~fps_valid)
        /\ (WorkerStep /\ worker_pc = "cmd" /\ running) =>
              worker_pc' = "mode1"
    ]_vars

\* after an iteration that ended in the except handler (FPS text not an
\* integer) the worker is in a later iteration, having sent a frame
C13_Witness ==
    /\ program = "gui"
    /\ backoff
    /\ running
    /\ worker_pc = "mode1"
    /\ current_mode = "Heartbeat"
    /\ osc_send_count > 0

\* C14: when the FPS or the port entry is not a valid integer, starting does
\* not start streaming: the GUI's mode never is HEARTBEAT, V2/V3 never have
\* is_streaming set, and no frame is sent.
C14_InvalidSettingNoStreaming ==
    (~fps_valid \/ ~port_valid) =>
        /\ current_mode # "Heartbeat"
        /\ ~is_streaming
        /\ frame = <<>>

\* the Tk main loop sends the sitting pose on the OSC client
SitSend == program = "v3" /\ ops' = ops + 1 /\ frame_kind' = "sit" /\ frame' # <<>>

WorkerRunning == \E t \in DOMAIN threads : threads[t].pc # "done"

\* C15: in MetaHumanStreamerV3 no OSC send is executed by the Tk main loop
\* while a stream_worker thread is running: the sitting pose is never sent
\* while a worker has not ended.
C15_NoGuiSendWhileWorkerRuns == [][~(SitSend /\ WorkerRunning)]_vars

\* C16: in MetaHumanStreamerGUI the channel list is not replaced while the
\* mode is HEARTBEAT, TURNING_LEFT, TURNING_RIGHT or BASELINE, and a ramp in
\* progress has one ramp_data entry per channel.
C16_ChannelsFixedWhileStreaming ==
    [][program = "gui" =>
          /\ (channels' # channels) => current_mode \notin StreamingModes
          /\ (ramp_data' # <<>>) => Len(ramp_data') = Len(channels')
    ]_vars

\* C17: in MetaHumanStreamerGUI every frame of the worker (heartbeat, ramp
\* phase or hold phase) in which a send succeeds adds the number of
\* successful sends to osc_send_count.
C17_SuccessfulSendsCounted ==
    [][(GuiFrameStep /\ Successes(frame') > 0) =>
          osc_send_count' = AddSent(osc_send_count, Successes(frame'))]_vars

\* the frame of the sequence that thread t is about to stream
FrameData(t) ==
    LET sequence == SequenceOf(threads[t].sequence)
    IN sequence[(threads[t].frame_count % Len(sequence)) + 1]

\* raw = normalized[featureIndex] * std[featureIndex] + mean[featureIndex]
RawValue(data, feature_idx) ==
    data[feature_idx + 1] * normalization_params.std[feature_idx + 1]
        + normalization_params.mean[feature_idx + 1]

\* clamp(v) for a clamp <<min, max>> with min <= max, v for no clamp
Clamped(clamp, v) ==
    IF clamp = <<>> THEN v
    ELSE IF v < clamp[1] THEN clamp[1]
    ELSE IF v > clamp[2] THEN clamp[2]
    ELSE v

\* C18: in a frame of stream_frame the value sent for a mapped channel is
\* clamp(scale * raw + offset) with raw = normalized * std + mean at the
\* channel's feature index; with a clamp <<min, max>>, min <= max, it lies in
\* [min, max], and without a clamp it is scale * raw + offset.
C18_TransformedValueSent ==
    [][\A t \in DOMAIN threads :
          (/\ Streamer
           /\ threads[t].pc = "send"
           /\ threads'[t].pc = "while"
           /\ frame_kind' = "stream") =>
          \A i \in DOMAIN channels :
             LET channel == channels[i]
                 transform == channel.transform
             IN (/\ channel.source_column \in DOMAIN channel_mapping
                 /\ channel_mapping[channel.source_column] < Len(FrameData(t)))
                => LET raw == RawValue(FrameData(t),
                                       channel_mapping[channel.source_column])
                       value == transform.scale * raw + transform.offset
                   IN /\ \E k \in DOMAIN frame' :
                            frame'[k].address = channel.osc_address
                      /\ \A k \in DOMAIN frame' :
                            frame'[k].address = channel.osc_address =>
                               /\ frame'[k].value = Clamped(transform.clamp, value)
                               /\ transform.clamp = <<>> =>
                                     frame'[k].value = value
                               /\ (/\ transform.clamp # <<>>
                                   /\ transform.clamp[1] <= transform.clamp[2]) =>
                                     /\ frame'[k].value >= transform.clamp[1]
                                     /\ frame'[k].value <= transform.clamp[2]
    ]_vars

\* a frame of the right turn: the clamped channel is sent at its upper limit
\* and the channel without a clamp beyond it
C18_Witness ==
    /\ Streamer
    /\ frame_kind = "stream"
    /\ current_mode = "TURNING_RIGHT"
    /\ \E k \in DOMAIN frame :
          frame[k].address = ChB.osc_address /\ frame[k].value = ChB.transform.clamp[2]
    /\ \E k \in DOMAIN frame :
          frame[k].address = ChA.osc_address /\ frame[k].value > 1

\* n_frames of the ramp that start_ramp builds from the entries
PlannedFrames == (duration_var * fps_var) \div 2

\* C19: for n > 1 the envelope that a ramp is built from has length n, starts
\* at 0, ends at 1, is non-decreasing with all values in [0, 1], and its
\* element i (from 0) is 3t^2 - 2t^3 at t = i/(n-1), that is
\* e_i * (n-1)^3 = 3*i^2*(n-1) - 2*i^3; the ramp data of every channel has
\* that length.
C19_EnvelopeShape ==
    (program = "gui" /\ ramp_data # <<>> /\ PlannedFrames > 1) =>
        LET n == PlannedFrames
            e == build_envelope(n)
        IN /\ Len(e) = n
           /\ \A i \in DOMAIN ramp_data : Len(ramp_data[i]) = n
           /\ RatEq(e[1], <<0, 1>>)
           /\ RatEq(e[n], <<1, 1>>)
           /\ \A j \in 1..n :
                 /\ e[j][2] > 0
                 /\ 0 <= e[j][1]
                 /\ e[j][1] <= e[j][2]
                 /\ e[j][1] * (n - 1) * (n - 1) * (n - 1) =
                        (3 * (j - 1) * (j - 1) * (n - 1)
                             - 2 * (j - 1) * (j - 1) * (j - 1)) * e[j][2]
           /\ \A j \in 1..(n - 1) :
                 e[j][1] * e[j + 1][2] <= e[j + 1][1] * e[j][2]

\* a ramp of three frames in progress, past its middle frame
C19_Witness ==
    /\ program = "gui"
    /\ ramp_data # <<>>
    /\ PlannedFrames = 3
    /\ Len(ramp_data[1]) = 3
    /\ ramp_frame >= 2
    /\ frame_kind = "ramp"

\* C20: the envelope of a one-frame ramp is the single value 1, so that the
\* ramp's only frame (and its hold) has the full amplitude.
C20_SingleFrameEnvelope ==
    (program = "gui" /\ ramp_data # <<>> /\ PlannedFrames = 1) =>
        /\ Len(build_envelope(1)) = 1
        /\ RatEq(build_envelope(1)[1], <<1, 1>>)
        /\ \A i \in DOMAIN ramp_data : Len(ramp_data[i]) = 1

\* C21: every TurnIntent that NLPParser.parse returns has
\* 0 <= angle_deg <= 180, 1 <= speed_deg_s <= 360 and, when it has a
\* duration, 0 <= duration_s <= 10 (here in tenths), whether the number is
\* explicit, from a modifier or the default; an explicit number out of range
\* becomes the nearest limit and one in range is kept.
C21_TurnNumbersClamped ==
    (nlp_pc = "route" /\ intent.type = "Turn") =>
        /\ 0 <= intent.angle_deg /\ intent.angle_deg <= 1800
        /\ 10 <= intent.speed_deg_s /\ intent.speed_deg_s <= 3600
        /\ intent.has_duration =>
              0 <= intent.duration_s /\ intent.duration_s <= 100
        /\ LET places == Places(text.tokens, <<"#", "degrees">>)
           IN places # {} =>
                 LET a == text.tokens[MinOf(places)].num
                 IN intent.angle_deg =
                       (IF a > 1800 THEN 1800 ELSE IF a < 0 THEN 0 ELSE a)
        /\ LET places == Places(text.tokens, <<"at", "#", "deg/s">>)
           IN places # {} =>
                 LET v == text.tokens[MinOf(places) + 1].num
                 IN intent.speed_deg_s =
                       (IF v > 3600 THEN 3600 ELSE IF v < 10 THEN 10 ELSE v)
        /\ LET places == Places(text.tokens, <<"for", "#", "seconds">>)
           IN places # {} =>
                 LET d == text.tokens[MinOf(places) + 1].num
                 IN /\ intent.has_duration
                    /\ intent.duration_s =
                          (IF d > 100 THEN 100 ELSE IF d < 0 THEN 0 ELSE d)

\* "turn left -10 degrees at 0.5 deg/s for 20 seconds" parsed: angle 0,
\* speed 1, duration 10
C21_Witness ==
    /\ nlp_pc = "route"
    /\ text = Text(Words(<<"turn", "left">>) \o <<N(-100), W("degrees")>>
                   \o <<W("at"), N(5), W("deg/s")>>
                   \o <<W("for"), N(200), W("seconds")>>)
    /\ intent.type = "Turn"
    /\ intent.angle_deg = 0
    /\ intent.speed_deg_s = 10
    /\ intent.has_duration
    /\ intent.duration_s = 100

\* C22: a turn intent always has exactly four OSC arguments: direction,
\* angle, speed and duration, the fourth one a NaN placeholder when the
\* intent has no duration; every message the router sends for it carries
\* exactly these four arguments; any other intent has no arguments.
C22_FourArguments ==
    nlp_pc \in {"route", "show", "off"} =>
        LET args == to_osc_args(intent)
        IN /\ intent.type # "Turn" => args = <<>> /\ transport = <<>>
           /\ intent.type = "Turn" =>
                /\ Len(args) = 4
                /\ args[1].kind = "str" /\ args[1].s = intent.direction
                /\ args[2].kind = "float" /\ args[2].f = intent.angle_deg
                /\ args[3].kind = "float" /\ args[3].f = intent.speed_deg_s
                /\ intent.has_duration =>
                       args[4].kind = "float" /\ args[4].f = intent.duration_s
                /\ ~intent.has_duration => args[4].kind = "nan"
                /\ \A k \in DOMAIN transport :
                       /\ transport[k].args = args
                       /\ transport[k].address = address_map[intent.scope]

C22_Witness ==
    /\ nlp_pc = "show"
    /\ intent.type = "Turn"
    /\ ~intent.has_duration
    /\ Len(transport) = 1
    /\ Len(transport[1].args) = 4
    /\ transport[1].args[4].kind = "nan"

\* C23: routing never raises: whatever the intent and whatever the transport
\* does, a result (success, message) with a message is returned; and when
\* the send for a turn intent fails (the transport refuses or raises), the
\* result is a failure whose message says "Failed to send".
C23_RouteAlwaysReturns ==
    (program = "nlp" /\ nlp_pc \in {"show", "off"}) =>
        /\ route_result.success \in BOOLEAN
        /\ route_result.message.kind # ""
        /\ \A k \in DOMAIN transport :
              transport[k].outcome # "sent" =>
                  /\ intent.type = "Turn"
                  /\ route_result.success = FALSE
                  /\ route_result.message.kind = "Failed to send"

C23_Witness ==
    /\ nlp_pc = "show"
    /\ intent.type = "Turn"
    /\ Len(transport) = 1
    /\ transport[1].outcome = "raised"
    /\ route_result.success = FALSE
    /\ route_result.message.kind = "Failed to send"

\* the step of the command line that routes the intent
Routing == program = "nlp" /\ nlp_pc = "route" /\ nlp_pc' # "route"

C25_NoSendWithoutAddressee ==
    [][Routing =>
        /\ address_map' = address_map
        /\ intent.type = "Unknown" =>
              /\ transport' = <<>>
              /\ route_result'.success = FALSE
              /\ route_result'.message.kind = "Unknown command"
              /\ route_result'.message.text = text
        /\ (intent.type = "Turn" /\ intent.scope \notin DOMAIN address_map) =>
              /\ transport' = <<>>
              /\ route_result'.success = FALSE
              /\ route_result'.message.kind = "No OSC address for scope"]_vars

C25_Witness ==
    /\ program = "nlp"
    /\ nlp_pc = "show"
    /\ intent.type = "Turn"
    /\ intent.scope = "head"
    /\ "head" \notin DOMAIN address_map
    /\ transport = <<>>
    /\ route_result.success = FALSE
    /\ route_result.message.kind = "No OSC address for scope"

\* C26: an empty or whitespace-only text never yields a command.  Read by
\* the command line, it gives an UnknownIntent with reason "Empty input",
\* and parse_command gives 'UNKNOWN' with confidence 0 and the text as it
\* was typed (it returns before the text is trimmed and matched).  In the
\* command entry of MetaHumanStreamerV3 the handler of such a text changes
\* neither the mode nor the streaming state.
C26_EmptyTextIsNoCommand ==
    [][/\ (program = "nlp" /\ nlp_pc = "read" /\ nlp_pc' = "route"
             /\ text'.tokens = <<>>) =>
            /\ intent'.type = "Unknown"
            /\ intent'.reason = "Empty input"
            /\ parsed'.action = "UNKNOWN"
            /\ parsed'.confidence = 0
            /\ parsed'.text = text'
       /\ (program = "v3" /\ gui_pc = "command" /\ text.tokens = <<>>) =>
            /\ UNCHANGED <<current_mode, is_streaming, stop_event, data_mode,
                           left_turn_sequence, right_turn_sequence>>
            /\ gui_pc' = "idle" =>
                   UNCHANGED <<threads, osc_send_count, osc_error_count,
                               frame, last_frame_sent>>]_vars

\* a whitespace-only text was read by the command line
C26_Witness ==
    /\ program = "nlp"
    /\ nlp_pc = "route"
    /\ text.tokens = <<>>
    /\ text.padded
    /\ intent.reason = "Empty input"
    /\ parsed.action = "UNKNOWN"
    /\ parsed.text = text

\* C27: in MetaHumanStreamerGUI the ramp that TURN_LEFT, TURN_RIGHT or
\* BASELINE starts begins, on each channel, at the value last sent on that
\* channel: when the worker handles the command right after an iteration
\* that sent a heartbeat, ramp or hold frame, the first value of the new
\* ramp equals the value of that frame (no jump).
C27_RampStartsAtCurrentValue ==
    [][(/\ program = "gui"
        /\ worker_pc = "cmd"
        /\ worker_pc' = "mode1"
        /\ command_queue # <<>>
        /\ handled' \in TurnCommands
        /\ osc_client /\ fps_valid /\ channels # <<>>
        /\ frame_kind \in {"heartbeat", "ramp", "hold"}) =>
            \A i \in DOMAIN frame :
                (i \in DOMAIN ramp_data' /\ Len(ramp_data'[i]) >= 1) =>
                    RatEq(ramp_data'[i][1], frame[i].value)]_vars

\* C28: parse_command is driven by the order of the categories: for every
\* text read, the action is that of the first category, in the order
\* turn_left, turn_right, basic_position, stop, sit, one of whose patterns
\* matches the trimmed lower-cased text, with confidence 1; it is 'UNKNOWN'
\* with confidence 0 exactly when no category has a matching pattern.
C28_FirstCategoryWins ==
    (program = "nlp" /\ nlp_pc = "route") =>
        LET matching == {c \in DOMAIN Commands :
                            Matches(c, Lower(Strip(text)))}
        IN /\ [c \in DOMAIN Commands |-> Commands[c].name] =
                  <<"turn_left", "turn_right", "basic_position", "stop", "sit">>
           /\ (parsed.action = "UNKNOWN") <=> (matching = {})
           /\ (parsed.confidence = 0) <=> (matching = {})
           /\ matching # {} =>
                /\ parsed.confidence = 1
                /\ \E c \in matching :
                      /\ \A d \in matching : c <= d
                      /\ parsed.action = Commands[c].action

\* a text that matches a pattern of turn_left and one of stop
C28_Witness ==
    /\ program = "nlp"
    /\ nlp_pc = "route"
    /\ text = Text(Words(<<"please", "turn", "left", "then", "stop">>))
    /\ parsed.action = "TURN_LEFT"
    /\ parsed.confidence = 1

\* C29: every phrase that a category of NLPCommandParser lists as an
\* alternative of one of its own patterns is parsed to the action of that
\* category (each sit phrase to POSE_SITTING, each stop phrase to STOP).
C29_ListedPhraseGivesItsAction ==
    (program = "nlp" /\ nlp_pc = "route") =>
        \A c \in DOMAIN Commands :
            \A p \in PhrasesOf(c) :
                text = Text(Words(p)) => parsed.action = Commands[c].action

\* C30: in MetaHumanStreamerGUI a START_HEARTBEAT that a completed ramp
\* left behind never cuts a later turn short: when the worker has handled
\* a turn command and the operator has issued nothing since, the main loop
\* puts an automatically generated START_HEARTBEAT on the command queue
\* (from where the worker takes it and returns the mode to HEARTBEAT) only
\* after the ramp of that turn has run through all of its ramp and hold
\* frames.
C30_NoStaleHeartbeat ==
    [][(/\ program = "gui"
        /\ after_queue # <<>>
        /\ Head(after_queue).kind = "put"
        /\ after_queue' = Tail(after_queue)
        /\ command_queue' = Append(command_queue, "START_HEARTBEAT")
        /\ since_turn
        /\ osc_client /\ channels # <<>> /\ ramp_data # <<>>) =>
            /\ ramp_frame >= Len(ramp_data[1])
            /\ hold_frame >= hold_frames]_vars

\* C31: in MetaHumanStreamerGUI a completed ramp and hold causes exactly
\* one START_HEARTBEAT: when the worker has handled a turn and the operator
\* has issued nothing since, the worker requests the return to HEARTBEAT
\* (schedules the callback that puts START_HEARTBEAT) only while no such
\* request is still pending on the GUI thread.
C31_OneReturnRequestPerRamp ==
    [][(/\ program = "gui"
        /\ worker_pc = "mode2"
        /\ worker_pc' = "cmd"
        /\ since_turn
        /\ frame_kind' = "complete"
        /\ after_queue' = Append(after_queue, PutCallback)) =>
            \A k \in DOMAIN after_queue : after_queue[k].kind # "put"]_vars

\* the sequence that a mode names
SequenceNamed(mode) ==
    CASE mode = "TURNING_LEFT"  -> "left"
      [] mode = "TURNING_RIGHT" -> "right"
      [] OTHER                  -> "baseline"

\* C32: in MetaHumanStreamerV2/V3 every frame streamed from the recorded
\* sequences carries the values of the sequence that its /mh/mode message
\* names: left_turn_sequence for TURNING_LEFT, right_turn_sequence for
\* TURNING_RIGHT, baseline_sequence for BASELINE, whatever the GUI thread
\* does between the worker's steps.
C32_ModeLabelMatchesSequence ==
    [][\A t \in DOMAIN threads :
          (/\ program \in {"v2", "v3"}
           /\ threads[t].pc = "send"
           /\ t \in DOMAIN threads'
           /\ threads'[t].pc = "while"
           /\ frame_kind' = "stream") =>
              \A k \in DOMAIN frame' :
                  frame'[k].address = "/mh/mode" =>
                      threads[t].sequence = SequenceNamed(frame'[k].value)]_vars

\* C33: in MetaHumanStreamerGUI osc_send_count and osc_error_count never
\* decrease while streaming continues: once the worker has handled a turn
\* and as long as the operator has issued nothing since (no start, no stop),
\* no step makes either counter smaller; the completion of the ramp does
\* not reset them.
C33_CountersMonotonic ==
    [][(program = "gui" /\ since_turn) =>
          /\ osc_send_count' >= osc_send_count
          /\ osc_error_count' >= osc_error_count]_vars

\* C34: in MetaHumanStreamerV2/V3 every streaming session starts in
\* BASELINE mode: right after a start_streaming call, also one that follows
\* a stop_streaming called during a turn, current_mode is BASELINE.
C34_SessionStartsInBaseline ==
    [][(program \in {"v2", "v3"} /\ ~is_streaming /\ is_streaming') =>
          current_mode' = "BASELINE"]_vars

\* the channel values of a frame of a sequence, as stream_frame sends them
ChannelValues(frame_data) ==
    LET sent == ChannelSends(Len(channels), denormalize_data(frame_data), {})
    IN [k \in DOMAIN sent |-> sent[k].value]

\* C35: in MetaHumanStreamerV2/V3 a turn sequence is played from its
\* beginning and in order: when the only worker thread sends frame number
\* i > 0 of a turn sequence right after another streamed frame, that frame
\* was frame i - 1 of the same sequence (so the first turn frame after a
\* baseline frame is frame 0, not frame_count modulo the length).
C35_TurnPlayedFromItsStart ==
    [][(/\ program \in {"v2", "v3"}
        /\ Len(threads) = 1
        /\ threads[1].pc = "send"
        /\ threads'[1].pc = "while"
        /\ threads[1].sequence \in {"left", "right"}
        /\ frame_kind = "stream"
        /\ frame_kind' = "stream") =>
            LET sequence == SequenceOf(threads[1].sequence)
                frame_idx == threads[1].frame_count % Len(sequence)
            IN frame_idx > 0 =>
                  /\ Len(frame) >= Len(ChannelValues(sequence[frame_idx]))
                  /\ \A k \in DOMAIN ChannelValues(sequence[frame_idx]) :
                        frame[k].value = ChannelValues(sequence[frame_idx])[k]
       ]_vars

\* C36: in MetaHumanStreamerGUI a load_config call that fails (returns
\* False) leaves self.channels exactly as it was before the call.
C36_FailedLoadKeepsChannels ==
    [][\A file \in ConfigFiles :
          (/\ program = "gui"
           /\ ops' = ops + 1
           /\ channels' = load_config(file).channels
           /\ ~load_config(file).ok) => channels' = channels]_vars

OscFields == <<osc_host, osc_port, osc_client, client_address>>

\* C37: in MetaHumanStreamerV2/V3 an Apply with a port text that is not an
\* integer leaves osc_host, osc_port and osc_client unchanged, and when
\* apply_osc_settings reports success (it does whenever osc_client is not
\* None after update_osc_client) the port text was an integer and the
\* client is one for the entered host and port.
C37_InvalidPortChangesNothing ==
    [][(program \in {"v2", "v3"} /\ <<OscFields, port_valid>>' # <<OscFields, port_valid>>) =>
          /\ ~port_valid' => UNCHANGED OscFields
          /\ (~is_streaming /\ osc_client') =>
                /\ port_valid'
                /\ client_address' = <<osc_host', osc_port'>>]_vars

\* C38: in MetaHumanStreamerV2/V3 no step taken while is_streaming is true,
\* an Apply among them, changes osc_host, osc_port or osc_client: the client
\* is not replaced between start_streaming and the following stop_streaming.
C38_NoClientChangeWhileStreaming ==
    [][(program \in {"v2", "v3"} /\ is_streaming) => UNCHANGED OscFields]_vars

\* V2 in a session after two operator events, the mode never written by a
\* handler: one event was start_streaming and the other an Apply, which
\* was pressed during the session with the port text 7001 (before it, it
\* would have replaced the client or, with the other text, left port_valid
\* false), and the client is still the one for the default port
C38_Witness ==
    /\ program = "v2"
    /\ is_streaming
    /\ ops = 2
    /\ mode_writer = "init"
    /\ port_valid
    /\ osc_client
    /\ osc_host = OSC_HOST
    /\ osc_port = OSC_PORT
    /\ client_address = <<OSC_HOST, OSC_PORT>>

\* C39: in MetaHumanStreamerV2/V3 nothing done while is_streaming is false
\* and stays false changes current_mode, left_turn_sequence or
\* right_turn_sequence or starts a worker thread; in V3 the handler of a
\* text parsed as TURN_LEFT, TURN_RIGHT or BASELINE returns with all of them
\* and is_streaming as they were.
C39_NoTurnWhileStopped ==
    [][/\ (program \in {"v2", "v3"} /\ ~is_streaming /\ ~is_streaming') =>
            /\ UNCHANGED <<current_mode, left_turn_sequence, right_turn_sequence>>
            /\ Len(threads') = Len(threads)
       /\ (/\ program = "v3"
           /\ gui_pc = "command"
           /\ gui_pc' # "command"
           /\ ~is_streaming
           /\ parse_command(Strip(text)).action \in {"TURN_LEFT", "TURN_RIGHT", "BASELINE"}) =>
                /\ UNCHANGED <<current_mode, left_turn_sequence, right_turn_sequence,
                               threads, is_streaming, stop_event>>
                /\ gui_pc' = "idle"]_vars

\* V3 after a session that was started and stopped: "turn right" was
\* entered in the command line and is handled while nothing is streamed
C39_Witness ==
    /\ program = "v3"
    /\ gui_pc = "command"
    /\ ~is_streaming
    /\ parse_command(Strip(text)).action = "TURN_RIGHT"
    /\ current_mode = "BASELINE"
    /\ Len(threads) = 1
    /\ ops = 3

====
